---- MODULE Spec2Model ----
(***************************************************************************)
(* A model of the JSConvert transpiler engine: the rule trie and its       *)
(* dispatcher (RuleBucket / AnyBucket / RuleManager), the emission buffer  *)
(* (CodeBuffer) and the top of the parser (CodeFactory.get_code).          *)
(*                                                                         *)
(* Entries of a parsed document are numbered 1..Len(doc) in flat order;    *)
(* 0 is the RootEntry and EMPTY is the module-level EMPTY entry.           *)
(***************************************************************************)
EXTENDS Integers, Sequences, FiniteSets, TLC

VARIABLES
    src,      \* the source text, as the entries it describes, and where its
              \* parse fails
    root,     \* parse state of the RootEntry: pos, has_more
    doc,      \* flat entry list of the document (Container.entries())
    rules,    \* the rule set, in registration order (RuleManager.add_rule)
    bufs,     \* the CodeBuffer objects; bufs[1] is the document's root buffer
    cur,      \* the buffer whose transpile() loop is running
    pc,       \* position of the top-level caller
    exc,      \* the exception that reached the top-level caller
    out,      \* the string returned to the top-level caller
    last,     \* the calls of apply made by the most recent dispatcher call,
              \* or the most recent buffer operation
    heading,  \* the HeadingBuffer shared by a root buffer and its sub-buffers
    import_map \* the ImportMap shared by a root buffer and its sub-buffers

vars == <<src, root, doc, rules, bufs, cur, pc, exc, out, last, heading,
          import_map>>

(***************************************************************************)
(* Bounds                                                                  *)
(***************************************************************************)
MaxEntries == 3

(***************************************************************************)
(* Entries (comp.py)                                                       *)
(***************************************************************************)
Root == 0
EMPTY == -1

LeafKinds == {"FunctionEnd", "Comment", "Declaration"}
ContainerKinds == {"ObjectType", "StatementBlock", "Constructor"}
Kinds == {"Function", "ObjectType", "FunctionEnd"}

is_leaf(k) == k \in LeafKinds
IsContainer(k) == k \in ContainerKinds

KindOf(e) == IF e = EMPTY THEN "CodeEntry"
             ELSE IF e = Root THEN "RootEntry" ELSE doc[e].kind
InsetOf(e) == IF e = EMPTY \/ e = Root THEN 0 ELSE doc[e].inset
ParOf(e) == IF e = EMPTY \/ e = Root THEN EMPTY ELSE doc[e].par

RECURSIVE get_container(_)
get_container(e) ==
    LET p == doc[e].par
    IN  IF p = Root \/ IsContainer(doc[p].kind) THEN p ELSE get_container(p)

\* the stack of container c: every entry pushed to it, in source order
Indices == [i \in 1..Len(doc) |-> i]
stack(c) == SelectSeq(Indices, LAMBDA i : get_container(i) = c)

RECURSIVE index_from(_, _, _)
index_from(seq, x, i) ==
    IF i > Len(seq) THEN 0
    ELSE IF seq[i] = x THEN i ELSE index_from(seq, x, i + 1)

\* list.index(x), 1-based; 0 when x is not in the list
index_of(seq, x) == index_from(seq, x, 1)

\* a get_children that forgets the 'e.par is entry' test
RECURSIVE ScanChildren_anyDescendant(_, _, _, _)
ScanChildren_anyDescendant(st, i, entry, lst) ==
    IF i <= Len(st) /\ InsetOf(st[i]) > InsetOf(entry)
    THEN ScanChildren_anyDescendant(st, i + 1, entry,
            IF KindOf(st[i]) # "Comment" THEN Append(lst, st[i]) ELSE lst)
    ELSE lst

RECURSIVE ScanChildren(_, _, _, _)
ScanChildren(st, i, entry, lst) ==
    IF i <= Len(st) /\ InsetOf(st[i]) > InsetOf(entry)
    THEN ScanChildren(st, i + 1, entry,
            IF ParOf(st[i]) = entry /\ KindOf(st[i]) # "Comment"
            THEN Append(lst, st[i]) ELSE lst)
    ELSE lst

\* Container.get_children reached through CodeEntry.get_children; the
\* entry must not be EMPTY (EMPTY has no parent to propagate to)
get_children(entry) ==
    IF is_leaf(KindOf(entry)) THEN <<>>
    ELSE IF entry = Root \/ IsContainer(KindOf(entry))
         THEN ScanChildren(stack(entry), 1, entry, <<>>)
         ELSE LET st == stack(get_container(entry))
                  i  == index_of(st, entry)
              IN  IF i = 0 THEN <<>> ELSE ScanChildren(st, i + 1, entry, <<>>)

(***************************************************************************)
(* Documents: every pre-order tree of at most MaxEntries entries           *)
(***************************************************************************)
RECURSIVE RightPath(_, _)
RightPath(d, i) == IF i = 0 THEN {0} ELSE {i} \cup RightPath(d, d[i].par)

ParentsFor(d) == {p \in RightPath(d, Len(d)) : p = 0 \/ ~is_leaf(d[p].kind)}

RECURSIVE DocsOfLen(_)
DocsOfLen(n) ==
    IF n = 0 THEN {<<>>}
    ELSE UNION {
        {Append(d, [kind |-> k, par |-> p,
                    inset |-> IF p = 0 THEN 1 ELSE d[p].inset + 1]) :
            k \in Kinds, p \in ParentsFor(d)} : d \in DocsOfLen(n - 1)}

Docs == UNION {DocsOfLen(n) : n \in 1..MaxEntries}

\* a source that parses to the end
NoFail == [at |-> 0, adv |-> FALSE]

(***************************************************************************)
(* Python list indexing: a negative index counts from the end              *)
(***************************************************************************)
PyIndexOK(seq, i) == i < Len(seq) /\ i >= 0 - Len(seq)
PyGet(seq, i) == IF i >= 0 THEN seq[i + 1] ELSE seq[Len(seq) + i + 1]

(***************************************************************************)
(* Exceptions                                                              *)
(***************************************************************************)
NoExc == [type |-> "None"]
NoEditException == [type |-> "NoEditException"]
IndexError == [type |-> "IndexError"]
AttributeError == [type |-> "AttributeError"]
NameError == [type |-> "NameError"]

RuleProcessingException(err, buffer, rule, start, end) ==
    [type |-> "RuleProcessingException", err |-> err, buffer |-> buffer,
     rule |-> rule, start |-> start, end |-> end]

(***************************************************************************)
(* CodeBuffer (transpiler.py)                                              *)
(***************************************************************************)
None == 0

\* the fields CodeBuffer.__init__ sets, for the list of entries it indexed
CodeBuffer(ents) ==
    [buf |-> <<>>, offset |-> 0, entries |-> ents, size |-> Len(ents),
     pb |-> None, par_offs |-> 0, head_offs |-> 0, inobject |-> FALSE,
     inset |-> 0]

\* the entries a root buffer indexes: every entry that is not a Comment
entries_of(d) ==
    SelectSeq([i \in 1..Len(d) |-> i], LAMBDA i : d[i].kind # "Comment")

NonComments == entries_of(doc)

\* HeadingBuffer.__init__ for the buffer cb, and ImportMap.__init__
HeadingBuffer(cb) == [cb |-> cb, pos |-> 0, reg |-> {}, newline |-> <<"\n">>]
ImportMap == [varset |-> {}]

PySlice(seq, bgn, end) ==
    SubSeq(seq, bgn + 1, IF end > Len(seq) THEN Len(seq) ELSE end)

\* get_slice returns the store with the new buffer appended; the new
\* buffer is the last one
get_slice(bs, b, bgn, end) ==
    LET self == bs[b]
        cb0  == CodeBuffer(<<>>)
        cb1  == IF bgn < end
                THEN [cb0 EXCEPT !.entries = PySlice(self.entries, bgn, end),
                                 !.size = end - bgn]
                ELSE cb0
    IN  Append(bs, [cb1 EXCEPT !.inset = self.inset, !.pb = b,
                               !.par_offs = bgn,
                               !.inobject = self.inobject])

RECURSIVE SubEnd(_, _, _, _)
SubEnd(self, i, start, end) ==
    IF i < self.size /\ InsetOf(self.entries[i + 1]) > InsetOf(start)
       /\ self.entries[i + 1] # end
    THEN SubEnd(self, i + 1, start, end)
    ELSE i

get_sub_buffer(bs, b, start, end) ==
    LET self == bs[b]
        ofs  == index_of(self.entries, start)
    IN  IF ofs = 0 THEN get_slice(bs, b, 0, 0)
        ELSE get_slice(bs, b, ofs, SubEnd(self, ofs, start, end))

RECURSIVE current(_, _, _)
current(bs, b, k) ==
    LET self   == bs[b]
        offset == k + self.offset
    IN  IF offset >= 0 /\ offset < self.size THEN self.entries[offset + 1]
        ELSE IF self.par_offs # 0
             THEN current(bs, self.pb,
                          (self.par_offs - bs[self.pb].offset) + offset)
             ELSE EMPTY

add(bs, b, token) == [bs EXCEPT ![b].buf = Append(@, token)]

\* str(entry): the text of an entry, here the name of its kind
Str(e) == <<KindOf(e)>>

(***************************************************************************)
(* Rules.  A rule is its name, its path() and what its apply does; the     *)
(* behaviours are those of rule classes of the repository.                 *)
(***************************************************************************)
Rule(name, path, act, kinds, token) ==
    [name |-> name, path |-> path, act |-> act, kinds |-> kinds,
     token |-> token]

RulePool == {
    Rule("default_rule1", <<>>, "default", {"Function", "FunctionEnd"}, <<>>),
    Rule("default_rule2", <<>>, "default", {"ObjectType"}, <<" ">>),
    Rule("FunctionEnd", <<"FunctionEnd">>, "basic", {}, <<>>),
    Rule("case", <<"FunctionEnd">>, "raise", {}, <<>>),
    Rule("function", <<"Function">>, "sub", {}, <<>>),
    Rule("call-end", <<"Function", "FunctionEnd">>, "consume", {}, <<>>),
    Rule("any", <<"Function", "ANY">>, "guarded", {}, <<>>),
    Rule("fill", <<"Function", "ANY", "FunctionEnd">>, "guarded", {}, <<>>),
    Rule("fill2", <<"Function", "ANY", "FunctionEnd">>, "consume", {}, <<>>)
}

RuleSets == {<<r1, r2>> : r1 \in RulePool, r2 \in RulePool}

(***************************************************************************)
(* The rule trie built by RuleManager.add_rule: a bucket is named by the   *)
(* path that leads to it; the root bucket (the RuleManager) is <<>>.       *)
(***************************************************************************)
IsPrefix(p, q) == Len(p) <= Len(q) /\ SubSeq(q, 1, Len(p)) = p

\* self._map.get(name) finds a bucket
HasBucket(node, name) ==
    \E i \in 1..Len(rules) :
        /\ Len(rules[i].path) > Len(node)
        /\ IsPrefix(Append(node, name), rules[i].path)

\* an add_rule that puts the new rule in front of the bucket's list
RECURSIVE Reverse(_)
Reverse(seq) == IF seq = <<>> THEN <<>> ELSE Append(Reverse(Tail(seq)), Head(seq))

BucketList_newestFirst(node) ==
    Reverse(SelectSeq([i \in 1..Len(rules) |-> i],
                      LAMBDA i : rules[i].path = node))

\* self._list, as indices into the registration order
BucketList(node) ==
    SelectSeq([i \in 1..Len(rules) |-> i], LAMBDA i : rules[i].path = node)

IsAnyBucket(node) == Len(node) > 0 /\ node[Len(node)] = "ANY"

(***************************************************************************)
(* The state threaded through one dispatcher call: the buffers, the calls  *)
(* of apply so far, the exception in flight and the last return value.     *)
(***************************************************************************)
DState(bs) == [bufs |-> bs, trace |-> <<>>, exc |-> NoExc, ret |-> FALSE]

Returned(s, v) == [s EXCEPT !.ret = v]
Raised(s, e) == [s EXCEPT !.exc = e, !.ret = FALSE]

RECURSIVE process(_, _, _, _, _)
RECURSIVE RuleBucket_process(_, _, _, _, _)
RECURSIVE AnyBucket_process(_, _, _, _, _)
RECURSIVE AnyBucket_children(_, _, _, _, _, _, _)
RECURSIVE apply_list(_, _, _, _, _, _, _)
RECURSIVE apply(_, _, _, _)
RECURSIVE append_buffer(_, _, _)
RECURSIVE transpile(_, _)

\* a process call returned True, or an exception is in flight
Done(s) == s.exc # NoExc \/ s.ret = TRUE

\* an append_buffer that extends buf with the result of each transpile()
extend_twice(b, cb, s) ==
    IF s.exc # NoExc THEN s
    ELSE Returned([s EXCEPT !.bufs[b].buf = @ \o s.bufs[cb].buf \o s.bufs[cb].buf],
                  s.bufs[cb].size)

\* self.buf.extend(...); return cb.size
extend(b, cb, s) ==
    IF s.exc # NoExc THEN s
    ELSE Returned([s EXCEPT !.bufs[b].buf = @ \o s.bufs[cb].buf],
                  s.bufs[cb].size)

\* CodeBuffer.append_buffer; the result carries the return value in .ret
append_buffer(b, cb, s) ==
    IF s.bufs[cb].entries = <<>> THEN Returned(s, 0)
    ELSE extend(b, cb, transpile(cb, transpile(cb, s)))

\* the return statement of a rule that appended a sub-buffer
appended_plus(s, k) == IF s.exc # NoExc THEN s ELSE Returned(s, s.ret + k)

\* CodeRule.apply of rule r on buffer b; the result carries the return
\* value in .ret and a raised exception in .exc
apply(r, b, offset, s) ==
    LET c == current(s.bufs, b, 0)
    IN  CASE r.act = "basic" ->
               Returned([s EXCEPT !.bufs = add(add(@, b, Str(c)), b, r.token)], 1)
          [] r.act = "default" ->
               IF KindOf(c) \in r.kinds
               THEN Returned(
                      [s EXCEPT !.bufs = add(add(@, b, Str(c)), b, r.token)], 1)
               ELSE Returned(s, 0)
          [] r.act = "consume" ->
               Returned([s EXCEPT !.bufs = add(@, b, <<r.name>>)], offset + 1)
          [] r.act = "guarded" ->
               IF KindOf(current(s.bufs, b, offset + 1)) = "FunctionEnd"
               THEN Returned(s, 0)
               ELSE Returned([s EXCEPT !.bufs = add(@, b, <<r.name>>)],
                             offset + 1)
          [] r.act = "raise" -> Raised(s, NameError)
          [] r.act = "sub" ->
               LET bs1 == add(s.bufs, b, <<r.name>>)
                   bs2 == get_sub_buffer(bs1, b, c, None)
               IN  appended_plus(
                     append_buffer(b, Len(bs2), [s EXCEPT !.bufs = bs2]), 1)

\* the call of apply that produced the state a, as the claims see it
Call(node, itm, b, offs, bind, a) ==
    [buf |-> b, node |-> node, rule |-> itm, arg |-> offs - 1, bind |-> bind,
     raised |-> a.exc # NoExc, val |-> IF a.exc # NoExc THEN 0 ELSE a.ret]

\* a loop body that advances the cursor by one entry whatever count the
\* rule returned
applied_advanceOne(node, lst, i, b, offs, bind, a) ==
    LET a1 == [a EXCEPT !.trace = Append(@, Call(node, lst[i], b, offs, bind, a))]
    IN  IF a.exc # NoExc
        THEN Raised(a1, RuleProcessingException(a.exc, b, lst[i],
                           current(a.bufs, b, 0),
                           current(a.bufs, b, offs - 1)))
        ELSE IF a.ret # 0
             THEN Returned([a1 EXCEPT !.bufs[b].offset = @ + 1], TRUE)
             ELSE apply_list(node, lst, i + 1, b, offs, bind, a1)

\* a loop body that swallows what a rule raises and goes on with the next
\* rule
applied_swallow(node, lst, i, b, offs, bind, a) ==
    LET a1 == [a EXCEPT !.trace = Append(@, Call(node, lst[i], b, offs, bind, a)),
                        !.exc = NoExc]
    IN  IF a.exc = NoExc /\ a.ret # 0
        THEN Returned([a1 EXCEPT !.bufs[b].offset = @ + a.ret], TRUE)
        ELSE apply_list(node, lst, i + 1, b, offs, bind, a1)

\* the body of the loop over self._list after itm.apply gave the state a:
\* 'if i: buffer.offset += i; return True', and the except clause
applied(node, lst, i, b, offs, bind, a) ==
    LET a1 == [a EXCEPT !.trace = Append(@, Call(node, lst[i], b, offs, bind, a))]
    IN  IF a.exc # NoExc
        THEN Raised(a1, RuleProcessingException(a.exc, b, lst[i],
                           current(a.bufs, b, 0),
                           current(a.bufs, b, offs - 1)))
        ELSE IF a.ret # 0
             THEN Returned([a1 EXCEPT !.bufs[b].offset = @ + a.ret], TRUE)
             ELSE apply_list(node, lst, i + 1, b, offs, bind, a1)

\* the loop over self._list in RuleBucket.process, from the i-th rule on
apply_list(node, lst, i, b, offs, bind, s) ==
    IF i > Len(lst) THEN Returned(s, FALSE)
    ELSE applied(node, lst, i, b, offs, bind,
                 apply(rules[lst[i]], b, offs - 1, s))

\* AnyBucket.process
AnyBucket_process(node, b, offs, bind, s) ==
    LET c == current(s.bufs, b, offs - 2)
    IN  IF c = EMPTY THEN Raised(s, AttributeError)
        ELSE AnyBucket_children(node, get_children(c), 1, b, offs - 2, bind, s)

process(node, b, offs, bind, s) ==
    IF IsAnyBucket(node) THEN AnyBucket_process(node, b, offs, bind, s)
    ELSE RuleBucket_process(node, b, offs, bind, s)

\* 'if super().process(buffer, offs): return True' and 'offs += 1'
next_child(node, cs, i, b, o, bind, s) ==
    IF Done(s) THEN s
    ELSE AnyBucket_children(node, cs, i + 1, b, o + 1, bind, s)

\* the loop over the children in AnyBucket.process, from the i-th child on
AnyBucket_children(node, cs, i, b, offs, bind, s) ==
    IF i > Len(cs) THEN Returned(s, FALSE)
    ELSE LET self == s.bufs[b]
             \* skip over descendants of child in the buffer stack
             hits == {o \in offs..(Len(self.entries) - self.offset) :
                        /\ PyIndexOK(self.entries, self.offset + o)
                        /\ PyGet(self.entries, self.offset + o) = cs[i]
                        /\ \A o2 \in offs..(o - 1) :
                              PyIndexOK(self.entries, self.offset + o2)}
             o    == CHOOSE o \in hits : \A o2 \in hits : o <= o2
         IN  IF hits = {} THEN Raised(s, IndexError)
             ELSE next_child(node, cs, i, b, o, bind,
                    RuleBucket_process(node, b, o, Append(bind, o), s))

\* pos < buffer.size
Look(s, b, offs) == s.bufs[b].offset + offs < s.bufs[b].size

\* type(buffer.entries[pos]).__name__
NameAt(s, b, offs) ==
    KindOf(PyGet(s.bufs[b].entries, s.bufs[b].offset + offs))

\* b = self._map.get(name); if b and b.process(buffer, offs+1): return True
exact_branch(node, b, offs, bind, s) ==
    IF Done(s) THEN s
    ELSE IF Look(s, b, offs) /\ HasBucket(node, NameAt(s, b, offs))
         THEN process(Append(node, NameAt(s, b, offs)), b, offs + 1,
                      Append(bind, offs), s)
         ELSE Returned(s, FALSE)

\* b = self._map.get("ANY"); if b and b.process(buffer, offs+1): return True
any_branch(node, b, offs, bind, s) ==
    IF Done(s) THEN s
    ELSE IF Look(s, b, offs) /\ HasBucket(node, "ANY")
         THEN process(Append(node, "ANY"), b, offs + 1, bind, s)
         ELSE Returned(s, FALSE)

\* the try block: the bucket's own rules
own_rules(node, b, offs, bind, s) ==
    IF Done(s) THEN s
    ELSE apply_list(node, BucketList(node), 1, b, offs, bind, s)

\* if self is buffer.rules: buffer.offset += 1; return True
advance_if_root(node, b, s) ==
    IF Done(s) THEN s
    ELSE IF node = <<>>
         THEN Returned([s EXCEPT !.bufs[b].offset = @ + 1], TRUE)
         ELSE Returned(s, FALSE)

\* a RuleBucket.process that applies the bucket's own rules before it
\* descends into the exact and the ANY branch
RuleBucket_process_ownFirst(node, b, offs, bind, s) ==
    IF /\ Look(s, b, offs)
       /\ ~PyIndexOK(s.bufs[b].entries, s.bufs[b].offset + offs)
    THEN Raised(s, IndexError)
    ELSE advance_if_root(node, b,
           any_branch(node, b, offs, bind,
             exact_branch(node, b, offs, bind,
               own_rules(node, b, offs, bind, Returned(s, FALSE)))))

\* RuleBucket.process
RuleBucket_process(node, b, offs, bind, s) ==
    IF /\ Look(s, b, offs)
       /\ ~PyIndexOK(s.bufs[b].entries, s.bufs[b].offset + offs)
    THEN Raised(s, IndexError)
    ELSE advance_if_root(node, b,
           own_rules(node, b, offs, bind,
             any_branch(node, b, offs, bind,
               exact_branch(node, b, offs, bind, Returned(s, FALSE)))))

\* CodeBuffer.transpile
transpile(b, s) ==
    IF s.exc = NoExc /\ s.bufs[b].offset < s.bufs[b].size
    THEN transpile(b, process(<<>>, b, 0, <<>>, s))
    ELSE s

(***************************************************************************)
(* The dispatch specification: a document, a rule set, and the             *)
(* transpile() loop of the root buffer or of a slice of it.                *)
(***************************************************************************)
NoOutput == [done |-> FALSE, text |-> <<>>]

RECURSIVE join(_)
join(tokens) == IF tokens = <<>> THEN <<>> ELSE Head(tokens) \o join(Tail(tokens))

Init ==
    /\ doc \in Docs
    /\ src = [entries |-> doc, fail |-> NoFail]
    /\ root = [pos |-> Len(doc) + 1, has_more |-> FALSE, packs |-> 1, hits |-> 0]
    /\ rules \in RuleSets
    /\ bufs = <<CodeBuffer(NonComments)>>
    /\ cur = 1
    /\ pc = "run"
    /\ exc = NoExc
    /\ out = NoOutput
    /\ last = [off0 |-> 0, trace |-> <<>>]
    /\ heading = HeadingBuffer(1)
    /\ import_map = ImportMap

\* a rule or a caller takes a slice of the root buffer and transpiles it
GetSlice(bgn, end) ==
    /\ pc = "run" /\ cur = 1 /\ Len(bufs) = 1
    /\ bufs[1].offset = 0 /\ last.trace = <<>>
    /\ bufs' = get_slice(bufs, 1, bgn, end)
    /\ cur' = 2
    /\ UNCHANGED <<src, root, doc, rules, pc, exc, out, last, heading,
                   import_map>>

\* one pass of the loop of transpile(): self.rules.process(self)
Dispatch ==
    /\ pc = "run"
    /\ bufs[cur].offset < bufs[cur].size
    /\ LET s == process(<<>>, cur, 0, <<>>, DState(bufs))
       IN  /\ bufs' = SubSeq(s.bufs, 1, Len(bufs))
           /\ last' = [off0 |-> bufs[cur].offset, trace |-> s.trace]
           /\ exc' = s.exc
           /\ pc' = IF s.exc = NoExc THEN "run" ELSE "raised"
    /\ UNCHANGED <<src, root, doc, rules, cur, out, heading, import_map>>

\* the loop of transpile() ends and the caller joins the tokens
Finish ==
    /\ pc = "run"
    /\ bufs[cur].offset >= bufs[cur].size
    /\ pc' = "done"
    /\ out' = [done |-> TRUE, text |-> join(bufs[cur].buf)]
    /\ UNCHANGED <<src, root, doc, rules, bufs, cur, exc, last, heading,
                   import_map>>

Next ==
    \/ \E bgn \in 0..MaxEntries, end \in 0..MaxEntries :
          bgn < end /\ end <= bufs[1].size /\ GetSlice(bgn, end)
    \/ Dispatch
    \/ Finish

Spec == Init /\ [][Next]_vars

(***************************************************************************)
(* Vocabulary of the dispatch claims: the calls of apply that the most     *)
(* recent dispatcher call made on the buffer being transpiled.             *)
(***************************************************************************)
Trace == last.trace
OwnCalls == {i \in 1..Len(Trace) : Trace[i].buf = cur}
PathOf(i) == rules[Trace[i].rule].path
IsProperPrefix(p, q) == Len(p) < Len(q) /\ IsPrefix(p, q)

\* the entry of the buffer at index rel relative to the cursor of that call
EntryAt(rel) == bufs[cur].entries[last.off0 + rel + 1]
InBuffer(rel) == last.off0 + rel >= 0 /\ last.off0 + rel < Len(bufs[cur].entries)

NoRaisingRule == \A i \in 1..Len(rules) : rules[i].act # "raise"

\* C1 (as claimed): with rules that all return an integer >= 0, every call
\* of the root dispatcher made while offset < size increases offset by at
\* least 1.
C1_EveryDispatchAdvances ==
    [][(Dispatch /\ NoRaisingRule)
          => bufs'[cur].offset >= bufs[cur].offset + 1]_vars

\* C2: the rules of one trie node are applied in registration order, none
\* is skipped, and the first non-zero return n ends the dispatch with
\* offset advanced by exactly n.
C2_FirstNonZeroWins ==
    \A i \in OwnCalls :
        /\ Trace[i].val # 0 =>
              /\ \A j \in OwnCalls : j <= i
              /\ bufs[cur].offset = last.off0 + Trace[i].val
        /\ \A j \in OwnCalls :
              (j > i /\ Trace[j].node = Trace[i].node
                     /\ Trace[j].bind = Trace[i].bind)
                 => Trace[i].rule < Trace[j].rule
        /\ \A k \in 1..(Trace[i].rule - 1) :
              rules[k].path = Trace[i].node =>
                 \E j \in OwnCalls :
                    /\ j < i /\ Trace[j].rule = k
                    /\ Trace[j].bind = Trace[i].bind
                    /\ Trace[j].val = 0 /\ ~Trace[j].raised

C2_Witness ==
    \E i, j \in OwnCalls :
        /\ i < j /\ Trace[i].node = Trace[j].node
        /\ Trace[i].bind = Trace[j].bind
        /\ Trace[i].val = 0 /\ Trace[j].val >= 2
        /\ bufs[cur].offset = last.off0 + Trace[j].val

\* C3 (as claimed): whenever a shorter-path rule and a longer-path rule
\* whose path extends it are both applied at one cursor position, the
\* longer one is applied first and has returned 0.
C3_LongerPathAlwaysFirst ==
    \A i, j \in OwnCalls :
        IsProperPrefix(PathOf(i), PathOf(j))
           => (j < i /\ Trace[j].val = 0 /\ ~Trace[j].raised)

\* C3 (amended): deepest first holds per match: when the longer rule's
\* match extends the shorter rule's match (the same entries, and the same
\* child for every ANY step, on the common steps), the longer rule is
\* applied first and the shorter one only after it returned 0; and at one
\* node the exact-kind branch is tried before the ANY branch.
C3_DeepestFirstPerMatch ==
    \A i, j \in OwnCalls :
        /\ (IsProperPrefix(PathOf(i), PathOf(j))
              /\ IsPrefix(Trace[i].bind, Trace[j].bind))
              => (j < i /\ Trace[j].val = 0 /\ ~Trace[j].raised)
        /\ \A n \in 0..Len(PathOf(i)) :
              (/\ Len(PathOf(i)) > n /\ Len(PathOf(j)) > n
               /\ SubSeq(PathOf(i), 1, n) = SubSeq(PathOf(j), 1, n)
               /\ SubSeq(Trace[i].bind, 1, n) = SubSeq(Trace[j].bind, 1, n)
               /\ PathOf(i)[n + 1] # "ANY" /\ PathOf(j)[n + 1] = "ANY")
              => (i < j /\ Trace[i].val = 0 /\ ~Trace[i].raised)

C3_Witness ==
    \E i, j \in OwnCalls :
        /\ IsProperPrefix(PathOf(i), PathOf(j))
        /\ IsPrefix(Trace[i].bind, Trace[j].bind)
        /\ j < i /\ Trace[j].val = 0 /\ Trace[i].val # 0

\* C4: a rule with path [..., K, ANY, E] is applied only to direct
\* children of the entry x matched by K that have kind E, with the child's
\* index relative to the cursor as offset argument, child by child in
\* source order: every earlier direct child of kind E was tried and
\* returned 0.
IsAnyRuleCall(i) ==
    LET p == PathOf(i)
    IN  Len(p) >= 3 /\ p[Len(p) - 1] = "ANY" /\ p[Len(p) - 2] # "ANY"

C4_AnyRangesOverDirectChildren ==
    \A i \in OwnCalls :
        IsAnyRuleCall(i) =>
            LET p == PathOf(i)
                x == EntryAt(Trace[i].bind[Len(p) - 2])
            IN  /\ InBuffer(Trace[i].arg)
                /\ ParOf(EntryAt(Trace[i].arg)) = x
                /\ KindOf(EntryAt(Trace[i].arg)) = p[Len(p)]
                /\ \A c \in 1..(EntryAt(Trace[i].arg) - 1) :
                      (ParOf(c) = x /\ KindOf(c) = p[Len(p)]) =>
                          \E j \in OwnCalls :
                              /\ j < i /\ Trace[j].rule = Trace[i].rule
                              /\ InBuffer(Trace[j].arg)
                              /\ EntryAt(Trace[j].arg) = c
                              /\ Trace[j].val = 0

C4_Witness ==
    \E i, j \in OwnCalls :
        /\ IsAnyRuleCall(i) /\ Trace[j].rule = Trace[i].rule /\ j < i
        /\ Trace[j].val = 0 /\ Trace[i].val # 0
        /\ EntryAt(Trace[j].arg) < EntryAt(Trace[i].arg)
        /\ ParOf(EntryAt(Trace[j].arg)) = ParOf(EntryAt(Trace[i].arg))

\* C5: a rule with an empty path (a default rule) is applied only after
\* every path rule applied at that cursor position returned 0; the
\* defaults are applied in registration order and the first non-zero
\* count advances the cursor by that count.
C5_DefaultsAfterTrie ==
    \A i \in OwnCalls :
        PathOf(i) = <<>> =>
            /\ \A j \in OwnCalls :
                  j < i => (Trace[j].val = 0 /\ ~Trace[j].raised
                            /\ (PathOf(j) = <<>> => Trace[j].rule < Trace[i].rule))
            /\ \A k \in 1..(Trace[i].rule - 1) :
                  rules[k].path = <<>> =>
                      \E j \in OwnCalls : j < i /\ Trace[j].rule = k
            /\ Trace[i].val # 0 =>
                  bufs[cur].offset = last.off0 + Trace[i].val

C5_Witness ==
    \E i, j \in OwnCalls :
        /\ j < i /\ PathOf(j) # <<>> /\ Trace[j].val = 0
        /\ PathOf(i) = <<>> /\ Trace[i].val # 0
        /\ bufs[cur].offset = last.off0 + Trace[i].val

\* C6: when a rule's apply raises, also inside a sub-buffer transpiled
\* through append_buffer, the top-level caller gets a
\* RuleProcessingException naming that rule and the entry under the
\* cursor, the cursor has not moved, and no output string is returned.
RECURSIVE Wrapped(_)
Wrapped(e) ==
    IF e.type = "RuleProcessingException" THEN {e} \cup Wrapped(e.err) ELSE {}

C6_RuleFailureAborts ==
    /\ \A i \in 1..Len(Trace) :
          Trace[i].raised =>
             /\ pc = "raised"
             /\ exc.type = "RuleProcessingException"
             /\ exc.buffer = cur
             /\ exc.start = EntryAt(0)
             /\ \E e \in Wrapped(exc) :
                   e.rule = Trace[i].rule /\ e.buffer = Trace[i].buf
             /\ (Trace[i].buf = cur => exc.rule = Trace[i].rule)
             /\ bufs[cur].offset = last.off0
    /\ pc = "raised" => out = NoOutput

C6_Witness ==
    /\ pc = "raised"
    /\ \E i \in 1..Len(Trace) : Trace[i].raised /\ Trace[i].buf # cur
    /\ exc.err.type = "RuleProcessingException"

(***************************************************************************)
(* Parsing (comp.py).  A source text is described by the entries a         *)
(* complete parse of it creates, in source order, and by the entry whose   *)
(* construction raises (fail.at, 0 for none); fail.adv tells whether       *)
(* _next_token moved the parent's pos past the token before the raise.     *)
(***************************************************************************)
MaxSource == 3

\* the characters of the source from the offset of a comment to the end of
\* its line or block; "no-edit" stands for its seven characters
CommentTexts == {
    <<"/", "/", " ", "no-edit", "\n">>,
    <<"/", "*", " ", "no-edit", " ", "*", "/">>,
    <<"/", "*", "x", "*", "/">>,
    <<"/", "/", "x">>
}

Items ==
    {[kind |-> k, text |-> <<>>] : k \in {"Function", "FunctionEnd"}}
    \cup {[kind |-> "Comment", text |-> t] : t \in CommentTexts}

RECURSIVE SourcesOfLen(_)
SourcesOfLen(n) ==
    IF n = 0 THEN {<<>>}
    ELSE UNION {
        {Append(d, [kind |-> it.kind, text |-> it.text, par |-> p,
                    inset |-> IF p = 0 THEN 1 ELSE d[p].inset + 1]) :
            it \in Items, p \in ParentsFor(d)} : d \in SourcesOfLen(n - 1)}

HasChildren(d, k) == k < Len(d) /\ d[k + 1].par = k

Fails(d) ==
    {NoFail}
    \cup {[at |-> k, adv |-> FALSE] : k \in 1..Len(d)}
    \cup {[at |-> k, adv |-> TRUE] :
            k \in {j \in 1..Len(d) : ~HasChildren(d, j)}}

Sources ==
    UNION {{[entries |-> d, fail |-> f] : f \in Fails(d)} :
            d \in UNION {SourcesOfLen(n) : n \in 1..MaxSource}}

\* the result of a call of _pack: the flat entry list, the pos and
\* has_more of the packed entry, the exception that left the call, and how
\* often the failing construction was run
Packed(d, pos, more, e, hits) ==
    [doc |-> d, pos |-> pos, has_more |-> more, exc |-> e, hits |-> hits]

RECURSIVE pack(_, _, _, _, _)

\* 'se._pack()' and 'self.pos = se.pos' for the child whose pack gave r
packed_child(self, s, pos, r) ==
    IF r.exc # NoExc THEN Packed(r.doc, pos, TRUE, r.exc, r.hits)
    ELSE pack(self, s, r.pos, r.doc, r.hits)

\* CodeEntry._pack of the entry self (built from source entry s, 0 for the
\* root) from self.pos = pos on, with d the entries pushed so far
pack(self, s, pos, d, hits) ==
    IF pos > Len(src.entries) \/ src.entries[pos].par # s
    THEN Packed(d, pos, FALSE, NoExc, hits)
    ELSE IF src.fail.at = pos
    THEN Packed(d, IF src.fail.adv THEN pos + 1 ELSE pos, TRUE,
                AttributeError, hits + 1)
    ELSE LET it == src.entries[pos]
             se == [kind |-> it.kind, text |-> it.text, par |-> self,
                    inset |-> IF self = Root THEN 1 ELSE d[self].inset + 1,
                    src |-> pos]
         IN  packed_child(self, s, pos,
                IF is_leaf(it.kind)
                THEN Packed(Append(d, se), pos + 1, FALSE, NoExc, hits)
                ELSE pack(Len(d) + 1, pos, pos + 1, Append(d, se), hits))

\* a get_code without the try block
get_code_propagates == pack(Root, 0, 1, <<>>, 0)

\* CodeFactory.get_code: 'try: root._pack() except: pass; return root'
get_code == [pack(Root, 0, 1, <<>>, 0) EXCEPT !.exc = NoExc]

\* str.find(sub, i), 0-based; -1 when sub does not occur from i on
find(spec, sub, i) ==
    LET at == {j \in i..(Len(spec) - Len(sub)) :
                 SubSeq(spec, j + 1, j + Len(sub)) = sub}
    IN  IF at = {} THEN 0 - 1 ELSE CHOOSE j \in at : \A k \in at : j <= k

Whitespace == {" ", "\n"}

RECURSIVE lstrip(_)
lstrip(t) == IF t # <<>> /\ Head(t) \in Whitespace THEN lstrip(Tail(t)) ELSE t

RECURSIVE rstrip(_)
rstrip(t) ==
    IF t # <<>> /\ t[Len(t)] \in Whitespace
    THEN rstrip(SubSeq(t, 1, Len(t) - 1)) ELSE t

strip(t) == rstrip(lstrip(t))

\* Comment.__init__: the pos of a comment that starts at offset 0 of spec
Comment_pos(spec) ==
    LET name == SubSeq(spec, 1, 2)
        i    == find(spec, IF name = <<"/", "*">> THEN <<"*", "/">>
                           ELSE <<"\n">>, 2)
    IN  IF name = <<"/", "*">>
        THEN (IF i # 0 - 1 THEN i + 2 ELSE Len(spec))
        ELSE (IF i # 0 - 1 THEN i ELSE Len(spec))

\* Comment.noEdit
noEdit(e) == strip(PySlice(e.text, 2, Comment_pos(e.text))) = <<"no-edit">>

DefaultRules ==
    <<Rule("default_rule1", <<>>, "default", {"Function", "FunctionEnd"}, <<>>),
      Rule("default_rule2", <<>>, "default", {"ObjectType"}, <<" ">>)>>

InitP ==
    /\ src \in Sources
    /\ root = [pos |-> 0, has_more |-> TRUE, packs |-> 0, hits |-> 0]
    /\ doc = <<>>
    /\ rules = DefaultRules
    /\ bufs = <<>>
    /\ cur = 1
    /\ pc = "start"
    /\ exc = NoExc
    /\ out = NoOutput
    /\ last = [off0 |-> 0, trace |-> <<>>]
    /\ heading = HeadingBuffer(None)
    /\ import_map = ImportMap

\* root = CodeFactory(source, keywords).get_code()
GetCode ==
    /\ pc = "start"
    /\ LET r == get_code
       IN  /\ doc' = r.doc
           /\ root' = [pos |-> r.pos, has_more |-> r.has_more, packs |-> 1,
                       hits |-> r.hits]
           /\ exc' = r.exc
           /\ pc' = IF r.exc = NoExc THEN "parsed" ELSE "raised"
    /\ UNCHANGED <<src, rules, bufs, cur, out, last, heading, import_map>>

\* CodeBuffer(root, rules): CodeBuffer.__init__ for the root that get_code
\* returned
Construct ==
    /\ pc = "parsed"
    /\ LET r == IF root.has_more
                THEN pack(Root, 0, root.pos, doc, root.hits)
                ELSE Packed(doc, root.pos, FALSE, NoExc, root.hits)
       IN  /\ doc' = r.doc
           /\ root' = [pos |-> r.pos, has_more |-> r.has_more,
                       packs |-> root.packs + 1, hits |-> r.hits]
           /\ IF r.exc # NoExc
              THEN /\ exc' = r.exc
                   /\ pc' = "raised"
                   /\ bufs' = bufs
                   /\ heading' = heading
              ELSE IF /\ r.doc # <<>>
                      /\ r.doc[1].kind = "Comment"
                      /\ noEdit(r.doc[1])
              THEN /\ exc' = NoEditException
                   /\ pc' = "raised"
                   /\ bufs' = bufs
                   /\ heading' = heading
              ELSE /\ exc' = exc
                   /\ pc' = "run"
                   /\ bufs' = <<CodeBuffer(entries_of(r.doc))>>
                   /\ heading' = HeadingBuffer(1)
    /\ UNCHANGED <<src, rules, cur, out, last, import_map>>

NextP == GetCode \/ Construct \/ Dispatch \/ Finish

SpecP == InitP /\ [][NextP]_vars

(***************************************************************************)
(* Vocabulary of the parse claims                                          *)
(***************************************************************************)
\* the entries a parse of src pushes before its failure, all of them when
\* it does not fail
Pushed ==
    [i \in 1..(IF src.fail.at = 0 THEN Len(src.entries) ELSE src.fail.at - 1)
        |-> [kind |-> src.entries[i].kind, text |-> src.entries[i].text,
             par |-> src.entries[i].par, inset |-> src.entries[i].inset,
             src |-> i]]

\* the text of a comment between its delimiters
Body(text) ==
    LET close == IF SubSeq(text, 1, 2) = <<"/", "*">> THEN <<"*", "/">>
                 ELSE <<"\n">>
        n     == Len(text) - Len(close)
    IN  IF n >= 2 /\ SubSeq(text, n + 1, Len(text)) = close
        THEN SubSeq(text, 3, n) ELSE SubSeq(text, 3, Len(text))

IsNoEditComment(e) == e.kind = "Comment" /\ strip(Body(e.text)) = <<"no-edit">>

\* C7: get_code never propagates an exception raised while packing; the
\* root it returns holds exactly the entries pushed before the failure.
C7_GetCodeNeverPropagates ==
    root.packs = 1 => pc = "parsed" /\ exc = NoExc /\ doc = Pushed

\* get_code returned a partially built tree after the pack of a child of
\* the root raised
C7_Witness ==
    /\ root.packs = 1 /\ pc = "parsed"
    /\ src.fail.at > 1 /\ src.entries[src.fail.at].par # Root
    /\ Len(doc) = src.fail.at - 1 /\ Len(doc) < Len(src.entries)

\* C8 (as claimed): when packing of the root failed part-way, constructing
\* the CodeBuffer does not raise the parse error, the failed parse step is
\* not run again, and the buffer indexes the truncated entry list that
\* get_code returned.
C8_FailedParseIsEmittedTruncated ==
    (src.fail.at # 0 /\ root.packs >= 2) =>
        /\ exc # AttributeError
        /\ root.hits = 1
        /\ exc = NoExc => bufs[1].entries = entries_of(Pushed)

\* C9 (as claimed): constructing the CodeBuffer raises NoEditException,
\* before any rule is dispatched and without output, exactly when the first
\* entry of the document is a // or /* */ comment whose trimmed body is
\* no-edit.
C9_NoEditFirstCommentRaises ==
    (src.fail.at = 0 /\ root.packs >= 2) =>
        /\ IsNoEditComment(src.entries[1]) <=> exc = NoEditException
        /\ exc = NoEditException =>
              pc = "raised" /\ bufs = <<>> /\ last.trace = <<>>
              /\ out = NoOutput

(***************************************************************************)
(* The text operations of CodeBuffer (transpiler.py).  A token is a string,*)
(* a sequence of characters.                                               *)
(***************************************************************************)
MaxTokens == 4

isspace(t) == t # <<>> /\ \A i \in 1..Len(t) : t[i] \in Whitespace

\* CodeBuffer.indent() for a buffer of the given inset
indent(inset) == [i \in 1..(4 * inset) |-> " "]

\* list.insert(i, x) for i >= 0
ListInsert(seq, i, x) ==
    LET k == IF i > Len(seq) THEN Len(seq) ELSE i
    IN  SubSeq(seq, 1, k) \o <<x>> \o SubSeq(seq, k + 1, Len(seq))

\* a new_line that adds tabs to inset without the max(0, ...)
new_line_unclamped(bs, b, tabs) ==
    [bs EXCEPT ![b].inset = @ + tabs,
               ![b].buf = Append(@, <<"\n">> \o indent(bs[b].inset + tabs))]

\* CodeBuffer.new_line
new_line(bs, b, tabs) ==
    LET inset == IF tabs # 0
                 THEN (IF bs[b].inset + tabs > 0 THEN bs[b].inset + tabs ELSE 0)
                 ELSE bs[b].inset
    IN  [bs EXCEPT ![b].inset = inset,
                   ![b].buf = Append(@, <<"\n">> \o indent(inset))]

space(bs, b) ==
    IF bs[b].buf # <<>> /\ isspace(bs[b].buf[Len(bs[b].buf)]) THEN bs
    ELSE add(bs, b, <<" ">>)

RECURSIVE pop_blank(_)
pop_blank(buf) ==
    IF buf # <<>> /\ (isspace(buf[Len(buf)]) \/ buf[Len(buf)] = <<>>)
    THEN pop_blank(SubSeq(buf, 1, Len(buf) - 1)) ELSE buf

\* a trim that pops the blank tokens and leaves the new tail as it is
trim_popOnly(bs, b) == [bs EXCEPT ![b].buf = pop_blank(@)]

\* CodeBuffer.trim
trim(bs, b) ==
    LET t == pop_blank(bs[b].buf)
    IN  [bs EXCEPT ![b].buf = IF t # <<>>
                              THEN [t EXCEPT ![Len(t)] = rstrip(@)] ELSE t]

\* the index (0-based) of the last line token of buf at or before cnt,
\* -1 when there is none
RECURSIVE last_line(_, _)
last_line(buf, cnt) ==
    IF cnt = 0 - 1 THEN 0 - 1
    ELSE IF /\ buf[cnt + 1] # <<>> /\ buf[cnt + 1][1] = "\n"
            /\ isspace(buf[cnt + 1])
         THEN cnt ELSE last_line(buf, cnt - 1)

RECURSIVE ancestors_len(_, _)
ancestors_len(bs, p) ==
    IF p = None THEN 0 ELSE Len(bs[p].buf) + ancestors_len(bs, bs[p].pb)

\* CodeBuffer._get_ins_name, as a number
get_ins_name(bs, b, ofs) == ancestors_len(bs, bs[b].pb) + ofs

count_spaces(t) == Cardinality({i \in 1..Len(t) : t[i] = " "})

\* CodeBuffer._get_insert_point: (insert buffer, insert index, tab count,
\* position name)
RECURSIVE get_insert_point(_, _)
get_insert_point(bs, b) ==
    LET self == bs[b]
        cnt  == last_line(self.buf, Len(self.buf) - 1)
    IN  IF self.inobject THEN get_insert_point(bs, self.pb)
        ELSE IF cnt # 0 - 1
        THEN [buf |-> b, idx |-> cnt + 1,
              tabs |-> count_spaces(self.buf[cnt + 1]) \div 4,
              name |-> get_ins_name(bs, b, cnt)]
        ELSE IF self.pb # None THEN get_insert_point(bs, self.pb)
        ELSE [buf |-> b, idx |-> 0, tabs |-> 0, name |-> 0]

\* an insert_code without the test 'if p[0] is not self: return False'
insert_code_anyBuffer(bs, b, code) ==
    LET p == get_insert_point(bs, b)
    IN  [bufs |-> [bs EXCEPT ![p.buf].buf =
                      ListInsert(ListInsert(@, p.idx,
                                            <<"\n">> \o indent(p.tabs)),
                                 p.idx, code)],
         ret |-> TRUE]

\* CodeBuffer.insert_code
insert_code(bs, b, code) ==
    LET p == get_insert_point(bs, b)
    IN  IF p.buf # b THEN [bufs |-> bs, ret |-> FALSE]
        ELSE [bufs |-> [bs EXCEPT ![b].buf =
                          ListInsert(ListInsert(@, p.idx,
                                                <<"\n">> \o indent(p.tabs)),
                                     p.idx, code)],
              ret |-> TRUE]

\* the tokens the rules emit for the function parsed by insert_function,
\* and for the statement parsed by insert_import_statement
function_tokens == <<<<"function">>>>
import_tokens == <<<<"import">>>>

\* CodeBuffer.insert_function; cb is the buffer of the parsed function, and
\* the import_map of the result is the one CodeBuffer.__init__ gave to cb
insert_function(bs, b) ==
    LET ins == get_insert_point(bs, b)
        cb0 == [CodeBuffer(<<>>) EXCEPT !.pb = b, !.inset = ins.tabs,
                                        !.buf = function_tokens]
        bs1 == new_line(trim(Append(bs, cb0), Len(bs) + 1), Len(bs) + 1, 0)
        cb  == bs1[Len(bs) + 1]
        buf == bs[ins.buf].buf
        cnt == ins.idx
    IN  [bufs |-> [bs EXCEPT ![ins.buf].buf =
                      IF cnt # 0
                      THEN SubSeq(buf, 1, cnt) \o cb.buf
                           \o SubSeq(buf, cnt, Len(buf))
                      ELSE cb.buf \o buf],
         ret |-> ins.name,
         import_map |-> ImportMap]

RECURSIVE root_of(_, _)
root_of(bs, b) == IF bs[b].pb # None THEN root_of(bs, bs[b].pb) ELSE b

RECURSIVE first_line(_, _)
first_line(buf, pos) ==
    IF pos < Len(buf) /\ \A i \in 1..Len(buf[pos + 1]) : buf[pos + 1][i] # "\n"
    THEN first_line(buf, pos + 1) ELSE pos

\* CodeBuffer.insert_import_statement; is_import tells whether the code
\* parses to a KW_import, sb is the buffer of the parsed statement
insert_import_statement(bs, b, is_import) ==
    LET self == root_of(bs, b)
        sb   == Len(bs) + 1
        bs1  == [get_slice(bs, self, 0, 0) EXCEPT ![sb].inset = 0]
        bs2  == new_line(bs1, sb, 0)
        bs3  == trim([bs2 EXCEPT ![sb].buf = @ \o import_tokens], sb)
        old  == bs[self].buf
        ln   == Len(old)
        at   == first_line(old, bs[self].head_offs)
        bs4  == IF at = ln THEN new_line(bs3, sb, 0) ELSE bs3
    IN  IF ~is_import THEN [bufs |-> bs, ret |-> FALSE]
        ELSE [bufs |-> [bs EXCEPT
                          ![self].buf = PySlice(old, 0, at) \o bs4[sb].buf
                                        \o PySlice(old, at, ln),
                          ![self].head_offs = at + Len(bs4[sb].buf)],
              ret |-> TRUE]

\* HeadingBuffer.insert; reg.get(key) is the position stored for the key
heading_insert(bs, h, key, code) ==
    IF \E r \in h.reg : r.key = key /\ r.pos # 0
    THEN [bufs |-> bs, heading |-> h, ret |-> FALSE]
    ELSE [bufs |-> [bs EXCEPT ![h.cb].buf =
                      ListInsert(ListInsert(@, h.pos, code),
                                 h.pos + 1, h.newline)],
          heading |-> [h EXCEPT
                         !.reg = {r \in @ : r.key # key}
                                 \cup {[key |-> key, pos |-> h.pos]},
                         !.pos = @ + 2],
          ret |-> TRUE]

(***************************************************************************)
(* The buffer specification: a root buffer over a parsed document, the     *)
(* sub-buffers taken from it, and the operations rules perform on them.    *)
(***************************************************************************)
BufferDoc ==
    <<[kind |-> "Function", par |-> 0, inset |-> 1],
      [kind |-> "FunctionEnd", par |-> 1, inset |-> 2]>>

RECURSIVE TokenCount(_, _)
TokenCount(bs, i) == IF i = 0 THEN 0 ELSE Len(bs[i].buf) + TokenCount(bs, i - 1)

\* the buffers hold at most MaxTokens tokens after the step
Room == TokenCount(bufs', Len(bufs')) <= MaxTokens

Buffers == 1..Len(bufs)

Did(op, b, ret) == [op |-> op, b |-> b, ret |-> ret]

InitB ==
    /\ doc = BufferDoc
    /\ src = [entries |-> doc, fail |-> NoFail]
    /\ root = [pos |-> Len(doc) + 1, has_more |-> FALSE, packs |-> 2, hits |-> 0]
    /\ rules = DefaultRules
    /\ bufs = <<CodeBuffer(NonComments)>>
    /\ cur = 1
    /\ pc = "run"
    /\ exc = NoExc
    /\ out = NoOutput
    /\ last = Did("init", 1, TRUE)
    /\ heading = HeadingBuffer(1)
    /\ import_map = ImportMap

Frame == UNCHANGED <<src, root, doc, rules, cur, pc, exc, out>>

\* sb = b.get_slice(bgn, end): one sub-buffer is taken from the root buffer
SubBuffer(b, bgn, end) ==
    /\ Len(bufs) = 1
    /\ bufs' = get_slice(bufs, b, bgn, end)
    /\ last' = Did("get_slice", b, Len(bufs) + 1)
    /\ Frame /\ UNCHANGED <<heading, import_map>>

\* sb.inobject = True, as the rules for object types do with a sub-buffer
SetInObject(b) ==
    /\ bufs[b].pb # None /\ ~bufs[b].inobject
    /\ bufs' = [bufs EXCEPT ![b].inobject = TRUE]
    /\ last' = Did("inobject", b, TRUE)
    /\ Frame /\ UNCHANGED <<heading, import_map>>

Add(b, token) ==
    /\ bufs' = add(bufs, b, token)
    /\ last' = Did("add", b, TRUE)
    /\ Frame /\ UNCHANGED <<heading, import_map>>

Space(b) ==
    /\ bufs' = space(bufs, b)
    /\ last' = Did("space", b, TRUE)
    /\ Frame /\ UNCHANGED <<heading, import_map>>

Trim(b) ==
    /\ bufs' = trim(bufs, b)
    /\ last' = Did("trim", b, TRUE)
    /\ Frame /\ UNCHANGED <<heading, import_map>>

NewLine(b, tabs) ==
    /\ bufs' = new_line(bufs, b, tabs)
    /\ last' = [op |-> "new_line", b |-> b, ret |-> TRUE, tabs |-> tabs]
    /\ Frame /\ UNCHANGED <<heading, import_map>>

InsertCode(b, code) ==
    /\ LET r == insert_code(bufs, b, code)
       IN  bufs' = r.bufs /\ last' = Did("insert_code", b, r.ret)
    /\ Frame /\ UNCHANGED <<heading, import_map>>

InsertFunction(b) ==
    /\ LET r == insert_function(bufs, b)
       IN  /\ bufs' = r.bufs
           /\ last' = [op |-> "insert_function", b |-> b, ret |-> r.ret,
                       import_map |-> r.import_map]
    /\ Frame /\ UNCHANGED <<heading, import_map>>

InsertImportStatement(b, is_import) ==
    /\ LET r == insert_import_statement(bufs, b, is_import)
       IN  /\ bufs' = r.bufs
           /\ last' = Did("insert_import_statement", b, r.ret)
           /\ import_map' = IF r.ret
                            THEN [import_map EXCEPT !.varset = @ \cup {"time"}]
                            ELSE import_map
    /\ Frame /\ UNCHANGED heading

\* b.heading.insert(key, code)
HeadingInsert(b, key, code) ==
    /\ LET r == heading_insert(bufs, heading, key, code)
       IN  /\ bufs' = r.bufs
           /\ heading' = r.heading
           /\ last' = Did("heading.insert", b, r.ret)
    /\ Frame /\ UNCHANGED import_map

\* b.transpile()
Transpile(b) ==
    /\ bufs[b].offset < bufs[b].size
    /\ LET s == transpile(b, DState(bufs))
       IN  /\ s.exc = NoExc
           /\ bufs' = SubSeq(s.bufs, 1, Len(bufs))
           /\ last' = Did("transpile", b, TRUE)
    /\ Frame /\ UNCHANGED <<heading, import_map>>

\* b.append_buffer(cb) for a sub-buffer cb of b
AppendBuffer(b, cb) ==
    /\ bufs[cb].pb = b
    /\ LET s == append_buffer(b, cb, DState(bufs))
       IN  /\ s.exc = NoExc
           /\ bufs' = SubSeq(s.bufs, 1, Len(bufs))
           /\ last' = [op |-> "append_buffer", b |-> b, ret |-> s.ret,
                       cb |-> cb]
    /\ Frame /\ UNCHANGED <<heading, import_map>>

NextB ==
    \/ \E b \in Buffers, bgn \in 0..Len(doc), end \in 0..Len(doc) :
          bgn < end /\ end <= bufs[b].size /\ SubBuffer(b, bgn, end)
    \/ \E b \in Buffers : SetInObject(b)
    \/ \E b \in Buffers : Add(b, <<"x">>) /\ Room
    \/ \E b \in Buffers : Space(b) /\ Room
    \/ \E b \in Buffers : Trim(b)
    \/ \E b \in Buffers : NewLine(b, 0) /\ Room
    \/ \E b \in Buffers : InsertCode(b, <<"c">>) /\ Room
    \/ \E b \in Buffers : InsertFunction(b) /\ Room
    \/ \E b \in Buffers, is_import \in BOOLEAN :
          InsertImportStatement(b, is_import) /\ Room
    \/ \E b \in Buffers : HeadingInsert(b, "k", <<"global">>) /\ Room
    \/ \E b \in Buffers : Transpile(b) /\ Room
    \/ \E b \in Buffers, cb \in Buffers : AppendBuffer(b, cb) /\ Room

SpecB == InitB /\ [][NextB]_vars

(***************************************************************************)
(* Vocabulary of the buffer claims                                         *)
(***************************************************************************)
\* the operations the claim lists for a sub-buffer
SubBufferOps ==
    {"add", "space", "trim", "new_line", "insert_code", "insert_function",
     "heading.insert", "insert_import_statement", "transpile"}

RECURSIVE IsAncestor(_, _)
IsAncestor(p, b) ==
    bufs[b].pb # None /\ (bufs[b].pb = p \/ IsAncestor(p, bufs[b].pb))

NextA ==
    \/ \E b \in Buffers, bgn \in 0..Len(doc), end \in 0..Len(doc) :
          bgn <= end /\ end <= bufs[b].size /\ SubBuffer(b, bgn, end)
    \/ \E b \in Buffers : Add(b, <<"x">>) /\ Room
    \/ \E b \in Buffers : Trim(b)
    \/ \E b \in Buffers : Transpile(b) /\ Room
    \/ \E b \in Buffers, cb \in Buffers : AppendBuffer(b, cb) /\ Room

SpecA == InitB /\ [][NextA]_vars

\* C11: append_buffer(cb) on a cb with at least one entry transpiles cb to
\* completion, appends the tokens of cb to the caller's buf once and as one
\* block at the end, returns cb.size and leaves the caller's offset as it
\* was; another transpile() of the finished cb changes nothing.  On a cb
\* without entries it returns 0 and changes no buffer.
C11_AppendBufferAppendsOnce ==
    [][last'.op = "append_buffer" =>
          IF bufs[last'.cb].entries = <<>>
          THEN last'.ret = 0 /\ bufs' = bufs
          ELSE /\ bufs'[last'.cb].offset >= bufs'[last'.cb].size
               /\ bufs'[last'.b].buf = bufs[last'.b].buf \o bufs'[last'.cb].buf
               /\ last'.ret = bufs[last'.cb].size
               /\ bufs'[last'.b].offset = bufs[last'.b].offset
               /\ transpile(last'.cb, DState(bufs')).bufs = bufs']_vars

\* append_buffer appended the tokens of a transpiled sub-buffer behind the
\* tokens the caller already held
C11_Witness ==
    /\ last.op = "append_buffer" /\ last.ret > 0
    /\ bufs[last.cb].offset >= bufs[last.cb].size
    /\ bufs[last.cb].buf # <<>>
    /\ Len(bufs[last.b].buf) > Len(bufs[last.cb].buf)

(***************************************************************************)
(* Re-parenting (comp.py).  TernaryExpression.__init__ and Increment._next *)
(* lift an entry that is already in its container's stack by inserting a   *)
(* new parent in front of it.                                              *)
(***************************************************************************)
\* e is a, or reaches a through parent links
RECURSIVE IsUnder(_, _)
IsUnder(e, a) == e = a \/ (e # Root /\ e # EMPTY /\ IsUnder(doc[e].par, a))

\* the loop of insert_parent: the stack entries from pos on whose inset is
\* incremented
RECURSIVE raised_from(_, _, _)
raised_from(st, pos, inset) ==
    IF pos <= Len(st) /\ InsetOf(st[pos]) > inset
    THEN {st[pos]} \cup raised_from(st, pos + 1, inset)
    ELSE {}

\* Container.insert_parent(child, parent) on the container of child, for a
\* new parent of the given kind; the result is the flat entry list, in
\* which the parent takes the place of child and the entries from child on
\* move one place up
insert_parent(child, kind) ==
    LET st       == stack(get_container(child))
        i        == index_of(st, child)
        parent   == [kind |-> kind, par |-> doc[child].par,
                     inset |-> doc[child].inset]
        raised   == raised_from(st, i + 1, parent.inset)
        moved(e) ==
            [doc[e] EXCEPT
                !.par   = IF e = child THEN child
                          ELSE IF doc[e].par >= child THEN doc[e].par + 1
                          ELSE doc[e].par,
                !.inset = IF e = child \/ e \in raised
                          THEN doc[e].inset + 1 ELSE doc[e].inset]
    IN  [k \in 1..(Len(doc) + 1) |->
            IF k < child THEN moved(k)
            ELSE IF k = child THEN parent ELSE moved(k - 1)]

\* the entry TernaryExpression.__init__ lifts: an Expression that holds the
\* last entry of its container's stack
IsLast(child) ==
    LET st == stack(get_container(child))
    IN  KindOf(child) = "Expression" /\ IsUnder(st[Len(st)], child)

(***************************************************************************)
(* The re-parenting specification: a document whose parse lifts entries,   *)
(* the root buffer over it, and the sub-buffers rules take from it.        *)
(***************************************************************************)
ExpressionKinds == {"Expression", "ObjectType", "FunctionEnd"}

RECURSIVE ExpressionDocsOfLen(_)
ExpressionDocsOfLen(n) ==
    IF n = 0 THEN {<<>>}
    ELSE UNION {
        {Append(d, [kind |-> k, par |-> p,
                    inset |-> IF p = 0 THEN 1 ELSE d[p].inset + 1]) :
            k \in ExpressionKinds, p \in ParentsFor(d)} :
        d \in ExpressionDocsOfLen(n - 1)}

ExpressionDocs == UNION {ExpressionDocsOfLen(n) : n \in 1..MaxEntries}

InitR ==
    /\ doc \in ExpressionDocs
    /\ src = [entries |-> doc, fail |-> NoFail]
    /\ root = [pos |-> 0, has_more |-> TRUE, packs |-> 1, hits |-> 0]
    /\ rules = DefaultRules
    /\ bufs = <<>>
    /\ cur = 1
    /\ pc = "packing"
    /\ exc = NoExc
    /\ out = NoOutput
    /\ last = [op |-> "init"]
    /\ heading = HeadingBuffer(None)
    /\ import_map = ImportMap

\* the parser meets a '?' behind the expression child
InsertParent(child) ==
    /\ pc = "packing"
    /\ Len(doc) <= MaxEntries
    /\ IsLast(child)
    /\ doc' = insert_parent(child, "TernaryExpression")
    /\ last' = [op |-> "insert_parent", child |-> child]
    /\ UNCHANGED <<src, root, rules, bufs, cur, pc, exc, out, heading,
                   import_map>>

\* the parse ends and CodeBuffer.__init__ indexes the document
ConstructR ==
    /\ pc = "packing"
    /\ pc' = "run"
    /\ root' = [root EXCEPT !.pos = Len(doc) + 1, !.has_more = FALSE]
    /\ bufs' = <<CodeBuffer(NonComments)>>
    /\ heading' = HeadingBuffer(1)
    /\ UNCHANGED <<src, doc, rules, cur, exc, out, last, import_map>>

\* sb = buffer.get_sub_buffer(start, end) on the root buffer
GetSubBuffer(start, end) ==
    /\ pc = "run" /\ Len(bufs) = 1
    /\ bufs' = get_sub_buffer(bufs, 1, start, end)
    /\ last' = [op |-> "get_sub_buffer", start |-> start, end |-> end]
    /\ UNCHANGED <<src, root, doc, rules, cur, pc, exc, out, heading,
                   import_map>>

NextR ==
    \/ \E child \in 1..Len(doc) : InsertParent(child)
    \/ ConstructR
    \/ \E start \in (1..Len(doc)) \cup {EMPTY},
          end \in (1..Len(doc)) \cup {None} : GetSubBuffer(start, end)

SpecR == InitR /\ [][NextR]_vars

\* the entries of the root buffer that reach start through parent links,
\* without start, and in front of end when end is one of them
DescendantsBefore(start, end) ==
    LET ents == bufs[1].entries
        stop == index_of(ents, end)
    IN  SelectSeq(ents, LAMBDA e :
            /\ e # start /\ IsUnder(e, start)
            /\ (end = None \/ stop = 0 \/ ~IsUnder(end, start) \/ end = start
                \/ index_of(ents, e) < stop))

\* C12 (as claimed): get_sub_buffer(start, end) returns a buffer whose
\* entries are the descendants of start in this buffer, in flat order and
\* without start; with an end, only those in front of end; for a start that
\* is not an entry of this buffer it has no entries.
C12_SubBufferHoldsDescendants ==
    (pc = "run" /\ last.op = "get_sub_buffer")
        => bufs[2].entries = DescendantsBefore(last.start, last.end)

\* C20 (as claimed): in every parsed document, also after the parser's
\* re-parenting steps, every entry other than the root has a parent p with
\* e.inset = p.inset + 1, the entries in the stacks of nested containers
\* below a re-parented entry included.
C20_InsetIsParentInsetPlusOne ==
    \A e \in 1..Len(doc) : doc[e].inset = InsetOf(doc[e].par) + 1

\* the entry at absolute index idx of buffer p, looked up in the buffers
\* above p when p does not hold it
RECURSIVE EntryAtAbsolute(_, _)
EntryAtAbsolute(p, idx) ==
    IF idx >= 0 /\ idx < bufs[p].size THEN bufs[p].entries[idx + 1]
    ELSE IF bufs[p].pb # None
         THEN EntryAtAbsolute(bufs[p].pb, bufs[p].par_offs + idx)
         ELSE EMPTY

\* C13 (as claimed): for a sub-buffer made by parent.get_slice(b, e),
\* current(k) is the sub-buffer's own entry when 0 <= offset + k < size and
\* otherwise the parent's entry at absolute index b + offset + k (EMPTY only
\* when no ancestor holds that index), for every b, b = 0 included.
C13_CurrentLooksIntoParent ==
    \A b \in 1..Len(bufs), k \in (0 - MaxEntries)..MaxEntries :
        bufs[b].pb # None =>
            current(bufs, b, k) =
                IF bufs[b].offset + k >= 0 /\ bufs[b].offset + k < bufs[b].size
                THEN bufs[b].entries[bufs[b].offset + k + 1]
                ELSE EntryAtAbsolute(bufs[b].pb,
                                     bufs[b].par_offs + bufs[b].offset + k)

\* CodeBuffer.peek: 'i > 0 and self.buf[i-1] or (self.pb and self.pb.peek()
\* or "")'; an empty string is false
RECURSIVE peek(_, _)
peek(bs, b) ==
    LET i == Len(bs[b].buf)
    IN  IF i > 0 /\ bs[b].buf[i] # <<>> THEN bs[b].buf[i]
        ELSE IF bs[b].pb # None THEN peek(bs, bs[b].pb)
        ELSE <<>>

\* C14 (as claimed): peek() returns the last token of this buffer's buf
\* whenever buf is not empty, whatever the token is, and asks the parent
\* buffer (yielding '' when there is none) only when buf is empty.
C14_PeekReturnsLastToken ==
    \A b \in 1..Len(bufs) :
        peek(bufs, b) =
            IF bufs[b].buf # <<>> THEN bufs[b].buf[Len(bufs[b].buf)]
            ELSE IF bufs[b].pb # None THEN peek(bufs, bufs[b].pb)
            ELSE <<>>

\* the index (0-based) of the most recent line token of buffer b, -1 when
\* its buf holds none
OwnLine(b) == last_line(bufs[b].buf, Len(bufs[b].buf) - 1)

\* C15 (as claimed): insert_code(s) returns False and leaves every buf as
\* it was whenever this buffer's own buf holds no line token, the root
\* buffer included; otherwise it returns True and inserts s and a line
\* token of the same indent right behind the most recent line token of
\* this buffer.
C15_InsertCodeNeedsOwnLine ==
    [][last'.op = "insert_code" =>
          IF OwnLine(last'.b) = 0 - 1
          THEN /\ last'.ret = FALSE
               /\ \A p \in Buffers : bufs'[p].buf = bufs[p].buf
          ELSE /\ last'.ret = TRUE
               /\ bufs'[last'.b].buf =
                     SubSeq(bufs[last'.b].buf, 1, OwnLine(last'.b) + 1)
                     \o << <<"c">>,
                           <<"\n">> \o indent(count_spaces(
                              bufs[last'.b].buf[OwnLine(last'.b) + 1]) \div 4) >>
                     \o SubSeq(bufs[last'.b].buf, OwnLine(last'.b) + 2,
                               Len(bufs[last'.b].buf))]_vars

\* the keys inserted into the heading since the last mark()
SeenKeys == {r.key : r \in heading.reg}

\* C16 (as claimed): HeadingBuffer.insert(k, s) inserts s and returns True
\* iff key k has not been inserted since the last mark(); a repeated key
\* returns False and leaves buf as it was, whatever the insert position is,
\* position 0 (before any mark()) included.
C16_HeadingInsertOncePerKey ==
    [][last'.op = "heading.insert" =>
          IF "k" \in SeenKeys
          THEN last'.ret = FALSE /\ bufs' = bufs
          ELSE /\ last'.ret = TRUE
               /\ bufs'[heading.cb].buf =
                     ListInsert(ListInsert(bufs[heading.cb].buf, heading.pos,
                                           <<"global">>),
                                heading.pos + 1, heading.newline)]_vars

\* ImportMap.is_imported
is_imported(map, name) == name \in map.varset

\* C17 (as claimed): the import map is document-wide: a name registered by
\* an insert_import_statement that returned True is imported when asked
\* through the import_map of every buffer of the document, the buffers
\* created by insert_function included.
C17_ImportMapIsDocumentWide ==
    last.op = "insert_function" =>
        \A n \in import_map.varset : is_imported(last.import_map, n)

(***************************************************************************)
(* The import specification: a root buffer, the sub-buffers taken from it, *)
(* and the rules that insert import statements and helper functions.       *)
(***************************************************************************)
\* the buffers hold at most MaxTokens + 2 tokens after the step: an import
\* statement and a function behind it need five
ImportRoom == TokenCount(bufs', Len(bufs')) <= MaxTokens + 2

NextI ==
    \/ \E b \in Buffers, bgn \in 0..Len(doc), end \in 0..Len(doc) :
          bgn < end /\ end <= bufs[b].size /\ SubBuffer(b, bgn, end)
    \/ \E b \in Buffers, is_import \in BOOLEAN :
          InsertImportStatement(b, is_import) /\ ImportRoom
    \/ \E b \in Buffers : InsertFunction(b) /\ ImportRoom

SpecI == InitB /\ [][NextI]_vars

(***************************************************************************)
(* The text specification: a root buffer, a sub-buffer taken from its      *)
(* start, and the rules that add tokens, spaces and lines and trim them.   *)
(***************************************************************************)
MaxInset == 1

NextT ==
    \/ \E end \in 1..Len(doc) : SubBuffer(1, 0, end)
    \/ \E b \in Buffers : Add(b, <<"x", " ">>) /\ Room
    \/ \E b \in Buffers : Space(b) /\ Room
    \/ \E b \in Buffers : Trim(b)
    \/ \E b \in Buffers, tabs \in {0 - 1, 0, 1} :
          NewLine(b, tabs) /\ Room /\ bufs'[b].inset <= MaxInset

SpecT == InitB /\ [][NextT]_vars

\* C18: after trim(), buf is empty or ends with a non-empty token without
\* trailing whitespace; the tokens before the new last token are as they
\* were, no other buffer is modified, and a second trim() changes nothing.
C18_TrimLeavesCleanTail ==
    [][last'.op = "trim" =>
          /\ \/ bufs'[last'.b].buf = <<>>
             \/ LET t == bufs'[last'.b].buf[Len(bufs'[last'.b].buf)]
                IN  t # <<>> /\ t[Len(t)] \notin Whitespace
          /\ Len(bufs'[last'.b].buf) <= Len(bufs[last'.b].buf)
          /\ \A i \in 1..(Len(bufs'[last'.b].buf) - 1) :
                bufs'[last'.b].buf[i] = bufs[last'.b].buf[i]
          /\ \A p \in Buffers : p # last'.b => bufs'[p] = bufs[p]
          /\ trim(bufs', last'.b) = bufs']_vars

\* trim() on a sub-buffer stripped the trailing space of the token that
\* became the tail, below a parent that ends with a blank token
C18_Witness ==
    /\ last.op = "trim" /\ bufs[last.b].pb # None
    /\ bufs[last.b].buf # <<>>
    /\ bufs[last.b].buf[Len(bufs[last.b].buf)] = <<"x">>
    /\ bufs[bufs[last.b].pb].buf # <<>>
    /\ isspace(bufs[bufs[last.b].pb].buf[Len(bufs[bufs[last.b].pb].buf)])

\* max(0, n)
Clamped(n) == IF n > 0 THEN n ELSE 0

\* C19: inset >= 0 holds in every buffer after any sequence of new_line(d)
\* calls with positive and negative d, and each new_line(d) appends exactly
\* one token: a newline followed by 4 x max(0, old inset + d) spaces.
C19_NewLineClampsInset ==
    [][last'.op = "new_line" =>
          /\ \A p \in Buffers : bufs'[p].inset >= 0
          /\ bufs'[last'.b].buf =
                Append(bufs[last'.b].buf,
                       <<"\n">> \o [i \in 1..(4 * Clamped(bufs[last'.b].inset
                                                        + last'.tabs)) |-> " "])
          /\ \A p \in Buffers : p # last'.b => bufs'[p] = bufs[p]]_vars

\* new_line(-1) was called on a buffer whose inset was 0 and appended a bare
\* newline
C19_Witness ==
    /\ last.op = "new_line" /\ last.tabs = 0 - 1
    /\ bufs[last.b].inset = 0
    /\ Len(bufs[last.b].buf) >= 2
    /\ bufs[last.b].buf[Len(bufs[last.b].buf)] = <<"\n">>
    /\ bufs[last.b].buf[Len(bufs[last.b].buf) - 1] = <<"\n">>

(***************************************************************************)
(* Scopes (comp.py).  Container.__init__ gives a container its scope tag   *)
(* when the parser creates it; get_scope resolves a name from a container. *)
(* A tag is a string, a sequence of characters.                            *)
(***************************************************************************)
\* str(n) for a child count below 10
DigitOf(n) == <<"0", "1", "2", "3", "4", "5", "6", "7", "8", "9">>[n + 1]

\* the fields of the root container and of container c that scopes read
ScopeOf(c) == IF c = Root THEN <<>> ELSE doc[c].scope
CcntOf(c) == IF c = Root THEN root.ccnt ELSE doc[c].ccnt

\* the nearest container at or above the parent p of a new entry
container_from(p) ==
    IF p = Root \/ IsContainer(doc[p].kind) THEN p ELSE get_container(p)

\* a Container.__init__ that does not count the children of the ancestor
scope_tag_uncounted(p, inscope) ==
    IF inscope THEN ScopeOf(container_from(p)) \o <<"_", DigitOf(1)>>
    ELSE <<>>

\* the scope Container.__init__ sets for a container created below p
scope_tag(p, inscope) ==
    IF inscope
    THEN ScopeOf(container_from(p))
         \o <<"_", DigitOf(CcntOf(container_from(p)) + 1)>>
    ELSE <<>>

\* some entry of the stack of c is a Declaration of name
declares(c, name) ==
    \E i \in 1..Len(stack(c)) :
        doc[stack(c)[i]].kind = "Declaration" /\ doc[stack(c)[i]].value = name

\* Container.is_declared(name) with local = False
RECURSIVE is_declared(_, _)
is_declared(c, name) ==
    \/ declares(c, name)
    \/ c # Root /\ is_declared(get_container(c), name)

\* a get_scope that returns the tag of the declaring container at once
RECURSIVE get_scope_innermost(_, _)
get_scope_innermost(c, name) ==
    IF c = Root THEN <<>>
    ELSE IF declares(c, name)
         THEN doc[c].scope
         ELSE get_scope_innermost(get_container(c), name)

\* Container.get_scope, and RootEntry.get_scope for the root
RECURSIVE get_scope(_, _)
get_scope(c, name) ==
    IF c = Root THEN <<>>
    ELSE IF declares(c, name)
         THEN (IF is_declared(get_container(c), name)
               THEN doc[c].scope ELSE <<>>)
         ELSE get_scope(get_container(c), name)

\* Container.get_prop
get_prop(c, name) == <<name>> \o get_scope(c, name)

(***************************************************************************)
(* The scope specification: the parser creates the entries of a document   *)
(* one after the other, and rules resolve names from its containers.       *)
(***************************************************************************)
Names == {"x", "y"}

InitS ==
    /\ doc = <<>>
    /\ src = [entries |-> <<>>, fail |-> NoFail]
    /\ root = [pos |-> 0, has_more |-> TRUE, packs |-> 1, hits |-> 0,
               ccnt |-> 0]
    /\ rules = DefaultRules
    /\ bufs = <<>>
    /\ cur = 1
    /\ pc = "packing"
    /\ exc = NoExc
    /\ out = NoOutput
    /\ last = [op |-> "init"]
    /\ heading = HeadingBuffer(None)
    /\ import_map = ImportMap

\* the fields of a new entry below p
Entry(kind, p, inscope, value) ==
    [kind |-> kind, par |-> p, inset |-> InsetOf(p) + 1, value |-> value,
     inscope |-> inscope, ccnt |-> 0, scope |-> scope_tag(p, inscope)]

\* the parser creates a container below p and pushes it
PushContainer(kind, p, inscope) ==
    /\ Len(doc) < MaxEntries
    /\ p \in ParentsFor(doc)
    /\ LET c == container_from(p)
       IN  /\ doc' = Append(IF inscope /\ c # Root
                            THEN [doc EXCEPT ![c].ccnt = @ + 1] ELSE doc,
                            Entry(kind, p, inscope, ""))
           /\ root' = IF inscope /\ c = Root
                      THEN [root EXCEPT !.ccnt = @ + 1] ELSE root
    /\ last' = [op |-> "push"]
    /\ UNCHANGED <<src, rules, bufs, cur, pc, exc, out, heading, import_map>>

\* the parser creates a Declaration of name below p and pushes it
PushDeclaration(p, name) ==
    /\ Len(doc) < MaxEntries
    /\ p \in ParentsFor(doc)
    /\ doc' = Append(doc, Entry("Declaration", p, FALSE, name))
    /\ last' = [op |-> "push"]
    /\ UNCHANGED <<src, root, rules, bufs, cur, pc, exc, out, heading,
                   import_map>>

\* a rule asks container c for the scope of name
GetScope(c, name) ==
    /\ IsContainer(KindOf(c)) \/ KindOf(c) = "RootEntry"
    /\ last' = [op |-> "get_scope", c |-> c, name |-> name,
                ret |-> get_scope(c, name)]
    /\ UNCHANGED <<src, root, doc, rules, bufs, cur, pc, exc, out, heading,
                   import_map>>

NextS ==
    \/ \E p \in 0..Len(doc) : PushContainer("StatementBlock", p, TRUE)
    \/ \E p \in 0..Len(doc) : PushContainer("Constructor", p, FALSE)
    \/ \E p \in 0..Len(doc) : PushDeclaration(p, "x")
    \/ \E c \in 0..Len(doc), name \in Names : GetScope(c, name)

SpecS == InitS /\ [][NextS]_vars

\* the containers of the document, the root included
Containers == {0} \cup {e \in 1..Len(doc) : IsContainer(doc[e].kind)}

\* the containers created with inscope below the nearest container c, and
\* the nearest container at or above c that carries no tag of its own
InscopeChildren(c) ==
    {e \in 1..Len(doc) :
        IsContainer(doc[e].kind) /\ doc[e].inscope /\ get_container(e) = c}

RECURSIVE Untagged(_)
Untagged(c) ==
    IF c = Root \/ ~doc[c].inscope THEN c ELSE Untagged(get_container(c))

RECURSIVE Chain(_)
Chain(c) == IF c = Root THEN {Root} ELSE {c} \cup Chain(get_container(c))

Declaring(c, name) == {d \in Chain(c) : declares(d, name)}

\* the innermost container of a non-empty set of nested containers
Innermost(S) == CHOOSE d \in S : \A d2 \in S : d2 <= d

\* C22 (as claimed): get_scope returns the scope tag of the innermost
\* container, from the point of use outward, in which the name is declared,
\* and the empty tag when it is declared only at the root or nowhere.
C22_ScopeOfInnermostDeclaration ==
    last.op = "get_scope" =>
        last.ret = IF Declaring(last.c, last.name) = {} THEN <<>>
                   ELSE ScopeOf(Innermost(Declaring(last.c, last.name)))

\* C22 (amended): get_scope returns the scope tag of the innermost
\* container in which the name is declared only when the name is declared
\* in a container enclosing that one as well; a name declared in one
\* container of the chain only, or nowhere, resolves to the empty tag.
C22_ScopeOfShadowingDeclaration ==
    last.op = "get_scope" =>
        last.ret = IF Cardinality(Declaring(last.c, last.name)) >= 2
                   THEN ScopeOf(Innermost(Declaring(last.c, last.name)))
                   ELSE <<>>

\* a name declared in a tagged block and outside it resolved to the tag
C22_Witness == last.op = "get_scope" /\ last.ret # <<>>

(***************************************************************************)
(* The keyword registry (jsconvert/lang.py)                                *)
(***************************************************************************)
\* the words reserved by the language
JS_KEYWORDS ==
    {"abstract", "arguments", "as", "await", "boolean", "break", "byte",
     "case", "catch", "char", "class", "const", "continue", "constructor",
     "debugger", "default", "delete", "do", "double", "else", "enum", "eval",
     "export", "extends", "false", "final", "finally", "float", "for",
     "from", "function", "goto", "if", "implements", "import", "in",
     "instanceof", "int", "interface", "let", "long", "native", "new",
     "null", "of", "package", "private", "protected", "public", "return",
     "short", "static", "super", "switch", "synchronized", "this", "throw",
     "throws", "transient", "true", "try", "typeof", "var", "void",
     "volatile", "while", "with", "yield", "undefined"}

\* a class of lang.py whose name begins with KW_ or XW_: the class, the
\* name after the prefix, and whether the class has the attribute functional
\* (its own, or inherited from Condition)
K(cls, name, functional) ==
    [cls |-> cls, name |-> name, functional |-> functional]

\* the classes in the order of their definition, the order of globals()
KeywordClasses ==
    <<K("KW_export", "export", FALSE), K("KW_import", "import", FALSE),
      K("KW_from", "from", FALSE), K("KW_default", "default", FALSE),
      K("KW_if", "if", TRUE), K("KW_else", "else", FALSE),
      K("KW_for", "for", TRUE), K("KW_do", "do", FALSE),
      K("KW_while", "while", TRUE), K("KW_switch", "switch", TRUE),
      K("KW_case", "case", FALSE), K("KW_extends", "extends", FALSE),
      K("KW_break", "break", FALSE), K("KW_continue", "continue", FALSE),
      K("KW_function", "function", FALSE), K("KW_var", "var", FALSE),
      K("KW_let", "let", FALSE), K("KW_const", "const", FALSE),
      K("KW_true", "true", FALSE), K("KW_false", "false", FALSE),
      K("KW_constructor", "constructor", TRUE), K("KW_new", "new", FALSE),
      K("KW_this", "this", FALSE), K("KW_super", "super", FALSE),
      K("KW_try", "try", FALSE), K("KW_catch", "catch", TRUE),
      K("XW_catch", "catch", FALSE), K("KW_finally", "finally", FALSE),
      K("KW_throw", "throw", FALSE), K("KW_null", "null", FALSE),
      K("KW_return", "return", FALSE), K("KW_class", "class", FALSE),
      K("KW_typeof", "typeof", FALSE),
      K("KW_instanceof", "instanceof", FALSE),
      K("KW_undefined", "undefined", FALSE)>>

NoClass == [cls |-> "None", name |-> "", functional |-> FALSE]

\* _def_mod(nm): a constructor of Modifier entries named nm
def_mod(nm) == [cls |-> "Modifier", name |-> nm, functional |-> FALSE]

\* every word a registry is asked for: the reserved words and an identifier
Words == JS_KEYWORDS \cup {"foo"}

\* the loop of Keywords.__init__ over the classes, from class i on
RECURSIVE register(_, _, _)
register(i, keys, altkeys) ==
    IF i > Len(KeywordClasses) THEN [keys |-> keys, altkeys |-> altkeys]
    ELSE LET e  == KeywordClasses[i]
             nm == e.name
         IN  IF keys[nm] # NoClass
             THEN IF e.functional
                  THEN register(i + 1, [keys EXCEPT ![nm] = e],
                                [altkeys EXCEPT ![nm] = keys[nm]])
                  ELSE register(i + 1, keys, [altkeys EXCEPT ![nm] = e])
             ELSE register(i + 1, [keys EXCEPT ![nm] = e], altkeys)

\* Keywords.__init__: the registry with a Modifier for every reserved word
\* that no class is named after
Keywords ==
    LET r == register(1, [w \in Words |-> NoClass], [w \in Words |-> NoClass])
    IN  [keys |-> [w \in Words |->
                     IF w \in JS_KEYWORDS /\ r.keys[w] = NoClass
                     THEN def_mod(w) ELSE r.keys[w]],
         altkeys |-> r.altkeys]

\* CodeFactory.next_char on the source that follows: the first printable
\* character that is not whitespace, "" at the end of the source
RECURSIVE next_char(_)
next_char(rest) ==
    IF rest = <<>> THEN ""
    ELSE IF Head(rest) \in Whitespace THEN next_char(Tail(rest))
         ELSE Head(rest)

\* a get_code_instance that never looks at the character after the keyword
get_code_instance_anyNext(reg, keyword, rest) ==
    reg.keys[keyword].cls

\* Keywords.get_code_instance: the class of the entry it creates, "None"
\* when it creates none
get_code_instance(reg, keyword, rest) ==
    LET c == reg.keys[keyword]
    IN  IF c # NoClass
        THEN IF c.functional /\ next_char(rest) # "("
             THEN reg.altkeys[keyword].cls
             ELSE c.cls
        ELSE "None"

(***************************************************************************)
(* The registry specification: the parser has read an identifier token    *)
(* and asks the registry for an entry.                                     *)
(***************************************************************************)
\* what follows the token in the source
Rests == {<<>>, <<"(">>, <<" ", "(">>, <<"\n", "(">>, <<"x">>, <<" ", "x">>,
          <<";">>, <<" ">>}

InitK ==
    /\ src \in [keyword : Words, rest : Rests]
    /\ root = [pos |-> 0, has_more |-> TRUE, packs |-> 1, hits |-> 0]
    /\ doc = <<>>
    /\ rules = DefaultRules
    /\ bufs = <<>>
    /\ cur = 1
    /\ pc = "token"
    /\ exc = NoExc
    /\ out = NoOutput
    /\ last = [op |-> "init"]
    /\ heading = HeadingBuffer(None)
    /\ import_map = ImportMap

GetCodeInstance ==
    /\ pc = "token"
    /\ pc' = "entry"
    /\ last' = [op |-> "get_code_instance",
                ret |-> get_code_instance(Keywords, src.keyword, src.rest)]
    /\ UNCHANGED <<src, root, doc, rules, bufs, cur, exc, out, heading,
                   import_map>>

NextK == GetCodeInstance

SpecK == InitK /\ [][NextK]_vars

\* the classes named after word w, and the words whose class is functional
ClassesOf(w) ==
    {KeywordClasses[i] : i \in {j \in 1..Len(KeywordClasses) :
                                   KeywordClasses[j].name = w}}
FunctionalWords == {w \in Words : \E k \in ClassesOf(w) : k.functional}

MaxChars == 4

\* _DELIMS = _STARTS + _ENDS + _SEPS + _OPERATORS
DELIMS == {" ", "(", "{", "[", ")", "}", "]", ".", ",", ";", ":",
           "+", "-", "/", "*", "%", "~", "^", "=", "<", ">", "&", "|", "!",
           "?"}

Digits == {"0", "1", "2", "3", "4", "5", "6", "7", "8", "9"}

\* CodeFactory.next_char(offset): the first character at or after offset
\* that is not whitespace with its position, ("", length) at the end; the
\* positions count from 1, the end of a source sp is Len(sp) + 1
RECURSIVE next_char_from(_, _)
next_char_from(sp, offset) ==
    IF offset > Len(sp) THEN [c |-> "", i |-> Len(sp) + 1]
    ELSE IF sp[offset] \in Whitespace THEN next_char_from(sp, offset + 1)
         ELSE [c |-> sp[offset], i |-> offset]

\* the loop of _next_token from position i on, for a token that starts with
\* character c at position start: the position the token ends before, or
\* an IndexError from sp[i+1]
RECURSIVE token_end(_, _, _, _, _)
token_end(sp, c, start, i, dot) ==
    IF i > Len(sp) THEN [pos |-> Len(sp) + 1, exc |-> "None"]
    ELSE IF sp[i] \in DELIMS \/ sp[i] \in Whitespace
         THEN IF sp[i] = "." /\ dot /\ c \in Digits
              THEN IF i + 1 > Len(sp)
                   THEN [pos |-> i, exc |-> "IndexError"]
                   ELSE IF sp[i + 1] \in Digits
                        THEN token_end(sp, c, start, i + 1, FALSE)
                        ELSE [pos |-> i, exc |-> "None"]
              ELSE [pos |-> i, exc |-> "None"]
         ELSE token_end(sp, c, start, i + 1, dot)

\* CodeEntry._next_token(c) for c = (character, position): the token
next_token(sp, c) ==
    IF c.c = "" \/ c.c \in DELIMS THEN [value |-> <<>>, exc |-> "None"]
    ELSE LET e == token_end(sp, c.c, c.i, c.i + 1, TRUE)
         IN  [value |-> PySlice(sp, c.i - 1, e.pos - 1), exc |-> e.exc]

\* the number branch of parse_entry at position i: NumberType(e, i, c +
\* e._next_token(self.next_char(i+1))), whose span is offs .. offs +
\* len(value); text is the source the entry spans
number_entry(sp, i) ==
    LET t == next_token(sp, next_char_from(sp, i + 1))
    IN  [exc |-> t.exc,
         text |-> PySlice(sp, i - 1, i - 1 + Len(<<sp[i]>> \o t.value))]

(***************************************************************************)
(* The number specification: the parser stands at a digit, or at a '-'     *)
(* before a digit, of a source of at most MaxChars characters.             *)
(***************************************************************************)
NumberChars == {"1", "5", ".", " ", "\n", "f", ";", "-"}

RECURSIVE CharsOfLen(_)
CharsOfLen(n) ==
    IF n = 0 THEN {<<>>}
    ELSE {Append(s, c) : s \in CharsOfLen(n - 1), c \in NumberChars}

NumberSources ==
    {s \in UNION {CharsOfLen(n) : n \in 1..MaxChars} :
        \/ s[1] \in Digits
        \/ s[1] = "-" /\ Len(s) > 1 /\ s[2] \in Digits}

InitN ==
    /\ src \in [spec : NumberSources]
    /\ root = [pos |-> 0, has_more |-> TRUE, packs |-> 1, hits |-> 0]
    /\ doc = <<>>
    /\ rules = DefaultRules
    /\ bufs = <<>>
    /\ cur = 1
    /\ pc = "digit"
    /\ exc = NoExc
    /\ out = NoOutput
    /\ last = [op |-> "init"]
    /\ heading = HeadingBuffer(None)
    /\ import_map = ImportMap

ParseNumber ==
    /\ pc = "digit"
    /\ pc' = "entry"
    /\ last' = [op |-> "parse_entry", ret |-> number_entry(src.spec, 1)]
    /\ UNCHANGED <<src, root, doc, rules, bufs, cur, exc, out, heading,
                   import_map>>

NextN == ParseNumber

SpecN == InitN /\ [][NextN]_vars

\* the digits of sp from position i on
RECURSIVE DigitRun(_, _)
DigitRun(sp, i) ==
    IF i <= Len(sp) /\ sp[i] \in Digits
    THEN <<sp[i]>> \o DigitRun(sp, i + 1) ELSE <<>>

\* the numeric literal a source begins with: an optional sign, digits, and
\* one decimal point with its fraction when digits stand on both sides
Literal(sp) ==
    LET sign == IF sp[1] = "-" THEN <<"-">> ELSE <<>>
        int  == DigitRun(sp, Len(sign) + 1)
        dot  == Len(sign) + Len(int) + 1
        frac == IF dot < Len(sp) /\ sp[dot] = "." /\ int # <<>>
                THEN DigitRun(sp, dot + 1) ELSE <<>>
    IN  sign \o int \o (IF frac # <<>> THEN <<".">> \o frac ELSE <<>>)

\* C24: the NumberType entry created for a numeric literal spans exactly
\* the characters of the literal, the fraction included and nothing that
\* follows it.
C24_NumberSpansLiteral ==
    (last.op = "parse_entry" /\ last.ret.exc = "None") =>
        last.ret.text = Literal(src.spec)

(***************************************************************************)
(* Ternary lifting (comp.py).  The parser packs a statement of names,      *)
(* parentheses, '=', '?' and ':' below the root; cur is the chain of       *)
(* entries whose _pack is running, the root first.  The root is the only   *)
(* container, so doc is its stack.                                         *)
(***************************************************************************)
MaxParse == 8

\* a new entry below p
Parsed(kind, p, inset, name) ==
    [kind |-> kind, par |-> p, inset |-> inset, name |-> name,
     begin |-> FALSE, has_more |-> FALSE, inblock |-> FALSE]

Top == cur[Len(cur)]
Pop(s) == SubSeq(s, 1, Len(s) - 1)
IsExpression(e) ==
    e # Root /\ e # EMPTY /\ doc[e].kind \in {"Expression", "TernaryExpression"}
HasTernary == \E e \in 1..Len(doc) : doc[e].kind = "TernaryExpression"

\* CodeEntry.get_ancestor(Expression), None above the root
RECURSIVE get_ancestor_Expression(_)
get_ancestor_Expression(e) ==
    IF e = Root THEN None
    ELSE IF IsExpression(doc[e].par) THEN doc[e].par
         ELSE get_ancestor_Expression(doc[e].par)

\* the entry TernaryExpression.__init__ lifts for a '?' read after the last
\* entry of the stack: None where the code dereferences None
ternary_last ==
    IF doc = <<>> THEN None
    ELSE LET l0 == Len(doc)
             l1 == IF doc[l0].name = ")" THEN doc[l0].par ELSE l0
         IN  IF IsExpression(l1) THEN l1 ELSE get_ancestor_Expression(l1)

\* the '(' that moves from the lifted expression to the ternary: the first
\* child of an expression that has a begin, looked up only when the last
\* entry was not itself an expression
ternary_bgn(lifted) ==
    LET l0 == Len(doc)
        l1 == IF doc[l0].name = ")" THEN doc[l0].par ELSE l0
    IN  IF ~IsExpression(l1) /\ doc[lifted].begin
        THEN get_children(lifted)[1] ELSE None

\* the stack after TernaryExpression.__init__: insert_parent, then the
\* '(' of the lifted expression moved behind the ternary as its child
ternary_init(lifted) ==
    LET d   == insert_parent(lifted, "TernaryExpression")
        bgn == ternary_bgn(lifted)
        t   == [Parsed("TernaryExpression", d[lifted].par, d[lifted].inset, "")
                   EXCEPT !.has_more = TRUE, !.inblock = TRUE,
                          !.begin = bgn # None]
        d1  == [d EXCEPT ![lifted] = t]
    IN  IF bgn = None THEN d1
        ELSE [k \in 1..Len(d1) |->
                IF k = lifted + 1
                THEN [d1[lifted + 2] EXCEPT !.par = lifted,
                                            !.inset = t.inset + 1]
                ELSE IF k = lifted + 2
                THEN [d1[lifted + 1] EXCEPT !.begin = FALSE]
                ELSE IF d1[k].par = lifted + 1 /\ k > lifted + 2
                THEN [d1[k] EXCEPT !.par = lifted + 2]
                ELSE d1[k]]

\* where the entries of the packing chain stand after the lift
lifted_chain(lifted, moved) ==
    [k \in 1..Len(cur) |->
        IF cur[k] < lifted THEN cur[k]
        ELSE IF cur[k] = lifted /\ moved THEN cur[k] + 2 ELSE cur[k] + 1]

\* the packing chain after the frames that end at a ')' have returned: its
\* top is the parenthesized expression the ')' closes, <<>> when there is
\* none
RECURSIVE closing(_)
closing(chain) ==
    IF chain = <<>> \/ chain[Len(chain)] = Root THEN <<>>
    ELSE LET e == doc[chain[Len(chain)]]
         IN  IF e.kind = "Expression" /\ e.begin THEN chain
             ELSE IF e.kind \in {"Expression", "Assignment"}
                  THEN closing(Pop(chain))
                  ELSE <<>>

(***************************************************************************)
(* The ternary specification                                               *)
(***************************************************************************)
InitQ ==
    /\ doc = <<>>
    /\ src = [tokens |-> <<>>]
    /\ root = [pos |-> 0, has_more |-> TRUE, packs |-> 1, hits |-> 0]
    /\ rules = DefaultRules
    /\ bufs = <<>>
    /\ cur = <<Root>>
    /\ pc = "packing"
    /\ exc = NoExc
    /\ out = NoOutput
    /\ last = [op |-> "init"]
    /\ heading = HeadingBuffer(None)
    /\ import_map = ImportMap

Read(token) ==
    /\ src' = [src EXCEPT !.tokens = Append(@, token)]
    /\ last' = [op |-> "parse_entry", token |-> token]
    /\ UNCHANGED <<rules, bufs, out, heading, import_map>>

\* an identifier in a statement or an expression: a GlobalType entry
Name(n) ==
    /\ pc = "packing" /\ Len(doc) < MaxParse /\ ~HasTernary
    /\ KindOf(Top) \in {"RootEntry", "Expression"}
    /\ n = "x" => doc = <<>>
    /\ doc' = Append(doc, Parsed("GlobalType", Top, InsetOf(Top) + 1, n))
    /\ Read(n)
    /\ UNCHANGED <<root, cur, pc, exc>>

\* an identifier read by TernaryExpression._next: an Expression that is not
\* parenthesized, which then reads the identifier
BranchName(n) ==
    /\ pc = "packing" /\ KindOf(Top) = "TernaryExpression"
    /\ doc[Top].has_more
    /\ n = "b" <=> doc[Top].inblock
    /\ LET e == Len(doc) + 1
       IN  /\ doc' = [doc EXCEPT ![Top].has_more = doc[Top].inblock]
                     \o <<[Parsed("Expression", Top, doc[Top].inset + 1, "")
                             EXCEPT !.has_more = TRUE],
                          Parsed("GlobalType", e, doc[Top].inset + 2, n)>>
           /\ cur' = Append(cur, e)
    /\ Read(n)
    /\ UNCHANGED <<root, pc, exc>>

\* '(': a parenthesized Expression and its Begin
Open ==
    /\ pc = "packing" /\ Len(doc) + 1 < MaxParse /\ ~HasTernary
    /\ KindOf(Top) \in {"RootEntry", "Expression"}
    /\ LET e == Len(doc) + 1
       IN  /\ doc' = doc
                     \o <<[Parsed("Expression", Top, InsetOf(Top) + 1, "")
                             EXCEPT !.has_more = TRUE, !.begin = TRUE],
                          Parsed("Begin", e, InsetOf(Top) + 2, "(")>>
           /\ cur' = Append(cur, e)
    /\ Read("(")
    /\ UNCHANGED <<root, pc, exc>>

\* ')': the expressions without parentheses that are being packed end, and
\* the parenthesized one gets its ExpressionEnd
Close ==
    /\ pc = "packing" /\ Len(doc) < MaxParse
    /\ closing(cur) # <<>>
    /\ LET chain == closing(cur)
           e     == chain[Len(chain)]
       IN  /\ doc' = Append(
                 [k \in 1..Len(doc) |->
                     IF \E j \in Len(chain)..Len(cur) : cur[j] = k
                     THEN [doc[k] EXCEPT !.has_more = FALSE] ELSE doc[k]],
                 Parsed("ExpressionEnd", e, doc[e].inset + 1, ")"))
           /\ cur' = Pop(chain)
    /\ Read(")")
    /\ UNCHANGED <<root, pc, exc>>

\* '=': an Assignment, its Operator and its Expression
Assign ==
    /\ pc = "packing" /\ Len(doc) + 2 < MaxParse /\ ~HasTernary
    /\ KindOf(Top) \in {"RootEntry", "Expression"}
    /\ \A e \in 1..Len(doc) : doc[e].kind # "Assignment"
    /\ LET a == Len(doc) + 1
       IN  /\ doc' = doc
                     \o <<Parsed("Assignment", Top, InsetOf(Top) + 1, "="),
                          Parsed("Operator", a, InsetOf(Top) + 2, "="),
                          [Parsed("Expression", a, InsetOf(Top) + 2, "")
                             EXCEPT !.has_more = TRUE]>>
           /\ cur' = cur \o <<a, a + 2>>
    /\ Read("=")
    /\ UNCHANGED <<root, pc, exc>>

\* '?': TernaryExpression.__init__ lifts the expression before it, or fails
\* on None and the parse ends; the entry that read the '?' pushes the
\* ternary and packs it, and the ternary's first _next pops that second
\* stack entry and creates the Operator
Question ==
    /\ pc = "packing" /\ ~HasTernary
    /\ KindOf(Top) \in {"RootEntry", "Expression"}
    /\ IF ternary_last = None
       THEN /\ pc' = "aborted"
            /\ exc' = [type |-> "AttributeError"]
            /\ UNCHANGED <<doc, cur>>
       ELSE LET t == ternary_last
                d == ternary_init(t)
            IN  /\ doc' = Append(d, Parsed("Operator", t, d[t].inset + 1, "?"))
                /\ cur' = Append(lifted_chain(t, ternary_bgn(t) # None), t)
                /\ UNCHANGED <<pc, exc>>
    /\ Read("?")
    /\ UNCHANGED root

\* ':': the branch expression that is being packed ends, and the ternary
\* creates the Separator
Colon ==
    /\ pc = "packing"
    /\ LET chain == IF KindOf(Top) = "Expression" /\ ~doc[Top].begin
                    THEN Pop(cur) ELSE cur
           t     == chain[Len(chain)]
       IN  /\ KindOf(t) = "TernaryExpression"
           /\ doc[t].has_more /\ doc[t].inblock
           /\ doc' = Append(
                 [k \in 1..Len(doc) |->
                     IF k = t THEN [doc[k] EXCEPT !.inblock = FALSE]
                     ELSE IF chain # cur /\ k = Top
                     THEN [doc[k] EXCEPT !.has_more = FALSE] ELSE doc[k]],
                 Parsed("Separator", t, doc[t].inset + 1, ":"))
           /\ cur' = chain
    /\ Read(":")
    /\ UNCHANGED <<root, pc, exc>>

\* the end of the source: every _pack returns
Finish_pack ==
    /\ pc = "packing"
    /\ pc' = "done"
    /\ doc' = [k \in 1..Len(doc) |-> [doc[k] EXCEPT !.has_more = FALSE]]
    /\ cur' = <<>>
    /\ root' = [root EXCEPT !.has_more = FALSE]
    /\ last' = [op |-> "get_code"]
    /\ UNCHANGED <<src, rules, bufs, exc, out, heading, import_map>>

NextQ ==
    \/ \E n \in {"x", "a"} : Name(n)
    \/ \E n \in {"b", "c"} : BranchName(n)
    \/ Open
    \/ Close
    \/ Assign
    \/ Question
    \/ Colon
    \/ Finish_pack

SpecQ == InitQ /\ [][NextQ]_vars

\* the statements of the claim, as the tokens the parser reads
TernaryStatements ==
    {<<"a", "?", "b", ":", "c">>,
     <<"(", "a", ")", "?", "b", ":", "c">>,
     <<"x", "=", "a", "?", "b", ":", "c">>,
     <<"x", "=", "(", "a", ")", "?", "b", ":", "c">>}

IsPrefixOf(s, t) == Len(s) <= Len(t) /\ s = SubSeq(t, 1, Len(s))

\* the identifiers below entry e
NamesUnder(e) ==
    {doc[k].name : k \in {j \in 1..Len(doc) :
                            doc[j].kind = "GlobalType" /\ IsUnder(j, e)}}

\* C25: parsing 'a ? b : c' and '(a) ? b : c', bare and on the right-hand
\* side of an assignment, does not abort and yields exactly one
\* TernaryExpression whose direct children contain, in source order, the
\* condition, the then-branch and the else-branch expression.
C25_TernaryIsLifted ==
    /\ (\E s \in TernaryStatements : IsPrefixOf(src.tokens, s)) =>
           pc # "aborted"
    /\ (pc = "done" /\ src.tokens \in TernaryStatements) =>
           /\ Cardinality({e \in 1..Len(doc) :
                             doc[e].kind = "TernaryExpression"}) = 1
           /\ \A t \in 1..Len(doc) : doc[t].kind = "TernaryExpression" =>
                 LET ex == SelectSeq(get_children(t),
                               LAMBDA c : doc[c].kind = "Expression")
                 IN  /\ Len(ex) = 3
                     /\ NamesUnder(ex[1]) = {"a"}
                     /\ NamesUnder(ex[2]) = {"b"}
                     /\ NamesUnder(ex[3]) = {"c"}

\* C25 (the part that holds): the three statements other than the bare
\* 'a ? b : c' are lifted as claimed.
C25_LiftedBehindExpression ==
    (pc = "done" /\ src.tokens \in TernaryStatements) =>
        \A t \in 1..Len(doc) : doc[t].kind = "TernaryExpression" =>
            LET ex == SelectSeq(get_children(t),
                          LAMBDA c : doc[c].kind = "Expression")
            IN  /\ Len(ex) = 3
                /\ NamesUnder(ex[1]) = {"a"}
                /\ NamesUnder(ex[2]) = {"b"}
                /\ NamesUnder(ex[3]) = {"c"}

\* every rule the dispatcher call tried returned 0
NoRuleAccepted(trace) ==
    \A i \in 1..Len(trace) : ~trace[i].raised /\ trace[i].val = 0

\* C26: when no path rule and no default rule accepts the entry under the
\* cursor (every rule tried returns 0), the dispatcher call raises nothing,
\* advances offset by exactly 1 and leaves buf, inset, heading and
\* import_map as they were.
C26_UnhandledEntryIsSkipped ==
    [][(Dispatch /\ NoRuleAccepted(last'.trace))
          => /\ exc' = NoExc
             /\ bufs'[cur].offset = bufs[cur].offset + 1
             /\ bufs'[cur].buf = bufs[cur].buf
             /\ bufs'[cur].inset = bufs[cur].inset
             /\ heading' = heading
             /\ import_map' = import_map]_vars

\* C28: while dispatching in any buffer, a slice that ends inside a
\* container included, the trie walk never indexes buffer.entries out of
\* range: no IndexError, and no other error that is not a
\* RuleProcessingException, escapes the dispatcher.
C28_NoIndexErrorEscapes ==
    exc.type \in {"None", "RuleProcessingException"}

(***************************************************************************)
(* append_entry (transpiler.py): a rule hands an entry of the root buffer  *)
(* to append_entry, which builds a buffer of the entry and its descendants *)
(* and transpiles it.                                                      *)
(***************************************************************************)
\* the buffers after 'sb = self.get_sub_buffer(e); sb.entries.insert(0, e);
\* sb.size += 1'; the new buffer is the last one
entry_buffer(bs, b, e) ==
    LET bs1 == get_sub_buffer(bs, b, e, None)
        sb  == Len(bs1)
    IN  [bs1 EXCEPT ![sb].entries = ListInsert(@, 0, e),
                    ![sb].size = @ + 1]

\* CodeBuffer.append_entry(e) on buffer b
append_entry(b, e, s) ==
    append_buffer(b, Len(s.bufs) + 1,
                  [s EXCEPT !.bufs = entry_buffer(s.bufs, b, e)])

InitE ==
    /\ doc \in Docs
    /\ src = [entries |-> doc, fail |-> NoFail]
    /\ root = [pos |-> Len(doc) + 1, has_more |-> FALSE, packs |-> 1, hits |-> 0]
    /\ rules = DefaultRules
    /\ bufs = <<CodeBuffer(NonComments)>>
    /\ cur = 1
    /\ pc = "run"
    /\ exc = NoExc
    /\ out = NoOutput
    /\ last = [op |-> "init"]
    /\ heading = HeadingBuffer(1)
    /\ import_map = ImportMap

\* a rule calls buffer.append_entry(e) on the root buffer
AppendEntry(e) ==
    /\ pc = "run" /\ Len(bufs) = 1
    /\ LET s == append_entry(1, e, DState(bufs))
       IN  /\ bufs' = s.bufs
           /\ exc' = s.exc
           /\ last' = [op |-> "append_entry", e |-> e, ret |-> s.ret]
    /\ UNCHANGED <<src, root, doc, rules, cur, pc, out, heading, import_map>>

NextE == \E e \in 1..Len(doc) : AppendEntry(e)

SpecE == InitE /\ [][NextE]_vars

\* C27: inside the buffer append_entry(e) builds, current(k) for a position
\* outside that buffer resolves to the parent's entry at the matching
\* absolute position: prev() at the first entry is the entry before e in
\* the parent, next() at the last entry is the entry behind the last
\* descendant of e.
C27_AppendEntryLooksIntoParent ==
    last.op = "append_entry" =>
        LET sb  == bufs[2]
            at  == index_of(bufs[1].entries, last.e) - 1
        IN  \A k \in (0 - 2 * MaxEntries - 2)..(MaxEntries + 2) :
                LET j == sb.offset + k
                IN  (at >= 0 /\ (j < 0 \/ j >= sb.size)) =>
                        current(bufs, 2, k) = EntryAtAbsolute(1, at + j)

(***************************************************************************)
(* Imports (transpiler.py, comp.py).  The parser packs import statements   *)
(* below the root: an import block without braces ends at a ';', so what   *)
(* follows an import that has no ';' is packed inside it.  cur is the      *)
(* import block that is being packed, or the root.  CodeBuffer.__init__    *)
(* then indexes the entries and registers the imports.                     *)
(***************************************************************************)
MaxImportEntries == 5

ImportNames == {"a", "b"}

\* the names _register_import finds in the sub-buffer of an import
\* statement: the values of its Attribute entries
imported_names(ents) ==
    {doc[ents[i]].value : i \in {j \in 1..Len(ents) :
                                   doc[ents[j]].kind = "Attribute"}}

\* the loop of CodeBuffer.__init__ over source.entries() from entry i on:
\* importing is the import statement waiting for its ';', None for none
RECURSIVE register_imports(_, _, _)
register_imports(i, importing, varset) ==
    IF i > Len(doc) THEN varset
    ELSE IF importing # None /\ doc[i].name = ";"
    THEN LET bs == get_sub_buffer(
                      <<CodeBuffer([k \in 1..i |-> k])>>, 1, importing, None)
         IN  register_imports(i + 1, None,
                 varset \cup imported_names(bs[2].entries))
    ELSE IF doc[i].kind = "KW_import"
    THEN register_imports(i + 1, i, varset)
    ELSE register_imports(i + 1, importing, varset)

InitM ==
    /\ doc = <<>>
    /\ src = [entries |-> <<>>, fail |-> NoFail]
    /\ root = [pos |-> 0, has_more |-> TRUE, packs |-> 1, hits |-> 0]
    /\ rules = DefaultRules
    /\ bufs = <<>>
    /\ cur = Root
    /\ pc = "packing"
    /\ exc = NoExc
    /\ out = NoOutput
    /\ last = [op |-> "init"]
    /\ heading = HeadingBuffer(None)
    /\ import_map = ImportMap

\* a new entry below the entry that is being packed
Imported(kind, name, value) ==
    [kind |-> kind, par |-> cur, inset |-> InsetOf(cur) + 1, name |-> name,
     value |-> value]

\* 'import': a KW_import block, packed next
PushImport ==
    /\ pc = "packing" /\ Len(doc) < MaxImportEntries
    /\ doc' = Append(doc, Imported("KW_import", "", ""))
    /\ cur' = Len(doc) + 1
    /\ last' = [op |-> "push"]
    /\ UNCHANGED <<src, root, rules, bufs, pc, exc, out, heading, import_map>>

\* an imported name: an Attribute of the import block
PushAttribute(n) ==
    /\ pc = "packing" /\ Len(doc) < MaxImportEntries
    /\ cur # Root
    /\ doc' = Append(doc, Imported("Attribute", "", n))
    /\ last' = [op |-> "push"]
    /\ UNCHANGED <<src, root, rules, bufs, cur, pc, exc, out, heading,
                   import_map>>

\* ';': the import blocks that are being packed end, and the root gets a
\* Separator
PushSemicolon ==
    /\ pc = "packing" /\ Len(doc) < MaxImportEntries
    /\ doc' = Append(doc, [kind |-> "Separator", par |-> Root, inset |-> 1,
                           name |-> ";", value |-> ""])
    /\ cur' = Root
    /\ last' = [op |-> "push"]
    /\ UNCHANGED <<src, root, rules, bufs, pc, exc, out, heading, import_map>>

\* the parse ends; CodeBuffer.__init__ indexes the entries and registers
\* the imports
ConstructM ==
    /\ pc = "packing"
    /\ pc' = "run"
    /\ root' = [root EXCEPT !.pos = Len(doc) + 1, !.has_more = FALSE]
    /\ bufs' = <<CodeBuffer(NonComments)>>
    /\ heading' = HeadingBuffer(1)
    /\ import_map' = [varset |-> register_imports(1, None, {})]
    /\ cur' = 1
    /\ last' = [op |-> "CodeBuffer"]
    /\ UNCHANGED <<src, doc, rules, exc, out>>

NextM ==
    \/ PushImport
    \/ \E n \in ImportNames : PushAttribute(n)
    \/ PushSemicolon
    \/ ConstructM

SpecM == InitM /\ [][NextM]_vars

\* C29: when a CodeBuffer is constructed, the names of every import
\* statement of the source are registered by the end of the construction,
\* whether or not the statement ends with a ';', and also when one import
\* is followed by another before any ';'.
C29_EveryImportRegistered ==
    pc = "run" =>
        \A e \in 1..Len(doc) :
            doc[e].kind = "Attribute" => is_imported(import_map, doc[e].value)

(***************************************************************************)
(* Headings (transpiler.py, pyrules/separators.py): the rule for the       *)
(* opening brace of a function body marks the heading position, and later  *)
(* rules insert imports, code and headings.                                *)
(***************************************************************************)
\* HeadingBuffer.mark
heading_mark(bs, h) ==
    [h EXCEPT !.reg = {}, !.pos = Len(bs[h.cb].buf),
              !.newline = <<"\n">> \o indent(bs[h.cb].inset)]

HeadingRoom == TokenCount(bufs', Len(bufs')) <= MaxTokens + 4

\* OpenBrace.apply at the '{' of a function body: b.trim(); b.add(":");
\* b.new_line(1); b.heading.mark().  out keeps the tokens of the heading's
\* buffer at that moment.
Mark(b) ==
    /\ pc = "run"
    /\ pc' = "marked"
    /\ bufs' = new_line(add(trim(bufs, b), b, <<":">>), b, 1)
    /\ heading' = heading_mark(bufs', heading)
    /\ out' = [done |-> FALSE, text |-> bufs'[heading.cb].buf]
    /\ last' = Did("heading.mark", b, TRUE)
    /\ UNCHANGED <<src, root, doc, rules, cur, exc, import_map>>

HeadingKeys == {"k1", "k2"}

NextH ==
    \/ pc = "run" /\ Add(1, <<"x">>) /\ HeadingRoom
    \/ Mark(1) /\ HeadingRoom
    \/ pc = "marked" /\ Add(1, <<"y">>) /\ HeadingRoom
    \/ InsertImportStatement(1, TRUE) /\ HeadingRoom
    \/ pc = "marked" /\ InsertCode(1, <<"c">>) /\ HeadingRoom
    \/ \E k \in HeadingKeys :
          pc = "marked" /\ HeadingInsert(1, k, <<k>>) /\ HeadingRoom

SpecH == InitB /\ [][NextH]_vars

\* s is t with some tokens left out
RECURSIVE IsSubsequence(_, _)
IsSubsequence(s, t) ==
    IF s = <<>> THEN TRUE
    ELSE IF t = <<>> THEN FALSE
    ELSE IF Head(s) = Head(t) THEN IsSubsequence(Tail(s), Tail(t))
    ELSE IsSubsequence(s, Tail(t))

\* C30: after mark(), a heading.insert with a new key places its code
\* behind the tokens that were in the buffer at mark() time, also when an
\* import, a function or a line of code was inserted at an earlier index
\* in between.
C30_HeadingBehindMarkedTokens ==
    pc = "marked" =>
        \A k \in HeadingKeys :
            LET buf == bufs[heading.cb].buf
                i   == index_of(buf, <<k>>)
            IN  i > 0 => IsSubsequence(out.text, SubSeq(buf, 1, i - 1))
====
